---- MODULE Spec2Model ----
(***************************************************************************)
(* The CI healing pipeline of backend/orchestrator/graph.py: nine stages   *)
(* over one shared AgentState, the convergence gate should_continue, and   *)
(* the driver run_healing_pipeline.                                        *)
(*                                                                         *)
(* The test tool, the LLM and git are the environment.  The pipeline pins  *)
(* them down (PYTHONHASHSEED, the LLM seed), so one run meets one          *)
(* repository and one behaviour of each tool: Init draws them from bounded *)
(* sets into the variable repo, and every stage reads its inputs from it.  *)
(***************************************************************************)
EXTENDS Integers, Sequences, FiniteSets, TLC

\* ------------------------------------------------------------------------
\* Bounds of the model
\* ------------------------------------------------------------------------
\* max_retries ranges over 1..MaxRetriesBound (settings.MAX_RETRIES has ge=1)
MaxRetriesBound == 2
\* a timeout fault hits one execution of the test tool, the first to the
\* MaxFaultAt-th of the run
MaxFaultAt == 2
\* the Classifier's steps 4 and 5 are run on every list of up to
\* MaxDiscovered discovered failures
MaxDiscovered == 3
\* the Scorer is run on validation results with tests_regressed up to
\* MaxRegressed; two of them take the total below 0
MaxRegressed == 12

\* ------------------------------------------------------------------------
\* Program constants
\* ------------------------------------------------------------------------
\* temperatures are kept as integers in units of 0.05 / 4^10, so that ten
\* multiplications by 0.75 stay exact
TempScale == 4 * 4 * 4 * 4 * 4 * 4 * 4 * 4 * 4 * 4
OPENAI_TEMPERATURE_START == 4 * TempScale
OPENAI_TEMPERATURE_MIN == 1 * TempScale
PATCH_MAX_LINES == 50
\* values of settings.OPENAI_TEMPERATURE_START (a float in [0, 1] read from
\* the environment): the default 0.2, and 0.0625, which one cooling takes
\* below the floor
TemperatureStarts == {OPENAI_TEMPERATURE_START, (5 * TempScale) \div 4}

None == "None"
\* Fix.commit_sha before any commit
NoSha == <<>>
\* Failure.line_number = None
NoLine == 0 - 1

\* ------------------------------------------------------------------------
\* The working clone
\* ------------------------------------------------------------------------
\* two source modules, each with a test module holding one test
SourceFiles == {"a.py", "b.py"}
SourceFileSeq == <<"a.py", "b.py">>
Tests == {"t1", "t2"}
TestSeq == <<"t1", "t2">>
\* the test module of a test (the path part of its nodeid) and the source
\* module its stack trace ends in
TestFile(t) == IF t = "t1" THEN "test_a.py" ELSE "test_b.py"
TracedFile(t) == IF t = "t1" THEN "a.py" ELSE "b.py"

\* A file on disk is bytes.  Two byte contents that decode to the same text
\* differ in their line endings: crlf = TRUE stands for "\r\n" line ends.
\* "v0" is the text the clone starts with, "v1" the rewritten text.
Texts == {"v0", "v1"}
FileBytes == [text : Texts, crlf : BOOLEAN]

\* Path.read_text(encoding="utf-8", errors="replace"): universal newlines,
\* every "\r\n" is returned as "\n"
ReadText(bytes) == bytes.text

\* Path.write_text(code, encoding="utf-8") on POSIX: "\n" is written as is
WriteText(code) == [text |-> code, crlf |-> FALSE]

\* ValidationAgent._apply_code: temp file write, then move over the target
ApplyCode(fs, file_path, code) == [fs EXCEPT ![file_path] = WriteText(code)]

\* ------------------------------------------------------------------------
\* The repository and the tools of one run
\* ------------------------------------------------------------------------
\* what text "v0" of a source file is like: sound, unparsable, or failing
\* the test that is traced to it
Kinds == {"ok", "syntax", "fails"}
\* what the rewrite of a source file is like (the LLM's answer, or the
\* rule engine's output): made = FALSE when it changes nothing; else text
\* "v1", which makes the tests in breaks fail, parses as Python or not, and
\* differs from "v0" in diff_lines changed lines of the unified diff
MkRewrite(made, breaks, parses, diff_lines) ==
    [made |-> made, breaks |-> breaks, parses |-> parses,
     diff_lines |-> diff_lines]

NoRewrite == MkRewrite(FALSE, {}, TRUE, 0)

\* rewrites that parse and change one line
Rewrites ==
    {NoRewrite} \cup { MkRewrite(TRUE, b, TRUE, 1) : b \in SUBSET Tests }

\* rewrites at the gates of the PatchGenerator: unparsable or not, and of
\* a size below, at and above PATCH_MAX_LINES
GateRewrites ==
    { MkRewrite(TRUE, {}, p, n) :
        p \in BOOLEAN, n \in {1, PATCH_MAX_LINES, PATCH_MAX_LINES + 1} }

\* the one fault of the run, if any
Faults ==
    { [kind |-> k, at |-> 0] :
        k \in {"none", "llm_rate", "llm_error", "no_client", "git", "setup_error"} }
    \cup { [kind |-> "timeout", at |-> n] : n \in 1..MaxFaultAt }

\* a stack trace without a frame that names a file of the repository
Untraced == [kind |-> "untraced", at |-> 0]

\* stack traces that end in "ModuleNotFoundError: No module named '...'"
ImportFault == [kind |-> "import_error", at |-> 0]

\* where the clone came from, and the push to it: the host repo_url and
\* the remote origin name ("local" for a path or a file:// URL), whether
\* settings.GITHUB_TOKEN is set, and whether origin.push raises
MkRemote(host, token, push_raises) ==
    [host |-> host, token |-> token, push_raises |-> push_raises]

LocalRemote == MkRemote("local", FALSE, FALSE)

\* remotes on github.com and on another host, with and without a token,
\* reachable or not
PushRemotes ==
    { MkRemote(h, t, x) :
        h \in {"github.com", "gitlab.com"}, t \in BOOLEAN, x \in BOOLEAN }

\* ------------------------------------------------------------------------
\* The setup of a run: settings, the CI log handed in, the repository root
\* ------------------------------------------------------------------------
\* the CI log as far as _parse_ci_logs reads it: the ##[error] lines, each
\* by whether its message matches ENV_PATTERNS and DEP_PATTERNS
MkSignal(is_env_issue, is_dependency_issue) ==
    [is_env_issue |-> is_env_issue, is_dependency_issue |-> is_dependency_issue]

\* ci_logs = None, the default of run_healing_pipeline
NoLogs == [given |-> FALSE, errors |-> <<>>]

\* a CI log whose ##[error] lines give the signals errors, in order
CiLog(errors) == [given |-> TRUE, errors |-> errors]

\* the files of the repository root that _detect_language looks for; the
\* last two stand for the six python_signals
RootMarkers ==
    {"package.json", "yarn.lock", "pom.xml", "build.gradle",
     "build.gradle.kts", "requirements.txt", "setup.py"}

PythonSignals == {"requirements.txt", "setup.py"}

\* source files of the clone by language (py_count, node_count, java_count)
MkCounts(py, node, java) == [py |-> py, node |-> node, java |-> java]

\* sandbox: settings.USE_DOCKER_SANDBOX
MkSetup(sandbox, ci_logs, root_files, ext_counts) ==
    [sandbox |-> sandbox, ci_logs |-> ci_logs, root_files |-> root_files,
     ext_counts |-> ext_counts]

\* tests run as a local subprocess, no CI log, a root without marker
\* files, and the four Python files of the clone
PlainSetup == MkSetup(FALSE, NoLogs, {}, MkCounts(4, 0, 0))

\* a repository without tests has no text that fails or breaks one
Repos ==
    { r \in [has_tests : BOOLEAN, kind0 : [SourceFiles -> Kinds],
             rewrite : [SourceFiles -> Rewrites], fault : Faults,
             remote : {LocalRemote}, setup : {PlainSetup}] :
        ~r.has_tests =>
            \A f \in SourceFiles : r.kind0[f] # "fails" /\ r.rewrite[f].breaks = {} }

\* the clone as checked out: every file holds text "v0", with the line
\* endings of the repository
Checkouts ==
    { [f \in SourceFiles |-> [text |-> "v0", crlf |-> c]] : c \in BOOLEAN }

\* how a call of the LLM ends in this run
LlmOutcome(rp) ==
    CASE rp.fault.kind = "llm_rate"  -> "rate"
      [] rp.fault.kind = "llm_error" -> "error"
      [] OTHER -> "ok"

\* get_llm_client() returns a client
ClientOk(rp) == rp.fault.kind # "no_client"

\* ------------------------------------------------------------------------
\* The test tool: one normalised TestRunResult per execution
\* ------------------------------------------------------------------------
\* passing / failing name the tests behind the counts passed / failed
MkRun(code, passing, failing, errs) ==
    [exit_code |-> code, passing |-> passing, failing |-> failing,
     passed |-> Cardinality(passing), failed |-> Cardinality(failing),
     errors |-> errs, raw_output |-> "stdout\nstderr", reported |-> TRUE]

\* a TestRunResult without counts and without a report: the tool did not
\* run to its end
MkNoRun(code, raw) ==
    [MkRun(code, {}, {}, 0) EXCEPT !.raw_output = raw, !.reported = FALSE]

\* the tests that fail because of the text a source file holds
Fails(rp, file, text) ==
    IF text = "v0"
    THEN (IF rp.kind0[file] = "fails"
          THEN { t \in Tests : TracedFile(t) = file } ELSE {})
    ELSE rp.rewrite[file].breaks

Unparsable(rp, fsys) ==
    { f \in SourceFiles :
        \/ (fsys[f].text = "v0" /\ rp.kind0[f] = "syntax")
        \/ (fsys[f].text = "v1" /\ ~rp.rewrite[f].parses) }

\* pytest on the files fsys: exit 5 when nothing is collected, exit 2 on a
\* collection error, exit 1 when a test fails, exit 0 otherwise
Pytest(rp, fsys) ==
    IF ~rp.has_tests THEN MkRun(5, {}, {}, 0)
    ELSE IF Unparsable(rp, fsys) # {} THEN MkRun(2, {}, {}, 1)
    ELSE LET failing == UNION { Fails(rp, f, fsys[f].text) : f \in SourceFiles }
         IN MkRun(IF failing = {} THEN 0 ELSE 1, Tests \ failing, failing, 0)

\* how the n-th execution of the test command ends: it exits, it exceeds
\* the timeout of 120 s, or its binary is missing
ToolOutcome(rp, n) ==
    IF rp.fault.kind = "timeout" /\ rp.fault.at = n THEN "timeout"
    ELSE IF rp.fault.kind = "no_binary" THEN "missing"
    ELSE "exits"

\* _run_command_wrapper: what the call gives back to _execute_pytest.
\* subprocess.run raises TimeoutExpired and FileNotFoundError;
\* DockerRunner.run_command catches every exception and returns a result
\* with returncode 124 (container.wait failed) or 255 (containers.run
\* failed).  Locally stdout and stderr are captured apart, in the
\* container the logs are stdout and stderr is ""
RunCommandWrapper(rp, n) ==
    LET outcome == ToolOutcome(rp, n)
    IN IF rp.setup.sandbox
       THEN CASE outcome = "timeout" ->
                   [raised |-> None, returncode |-> 124, reports |-> FALSE,
                    stdout |-> "", stderr |-> "Timeout/Error"]
              [] outcome = "missing" ->
                   [raised |-> None, returncode |-> 255, reports |-> FALSE,
                    stdout |-> "", stderr |-> "error"]
              [] OTHER ->
                   [raised |-> None, returncode |-> 0, reports |-> TRUE,
                    stdout |-> "logs", stderr |-> ""]
       ELSE CASE outcome = "timeout" ->
                   [raised |-> "TimeoutExpired", returncode |-> 0,
                    reports |-> FALSE, stdout |-> "", stderr |-> ""]
              [] outcome = "missing" ->
                   [raised |-> "FileNotFoundError", returncode |-> 0,
                    reports |-> FALSE, stdout |-> "", stderr |-> ""]
              [] OTHER ->
                   [raised |-> None, returncode |-> 0, reports |-> TRUE,
                    stdout |-> "stdout", stderr |-> "stderr"]

\* _execute_pytest, n-th execution of the run: the normalised result of
\* the command.  A command that exits leaves pytest's exit code and
\* report; one that did not run to its end leaves no report (a timeout in
\* the container is taken at an execution before which the clone holds no
\* report file)
ExecutePytest(rp, fsys, n) ==
    LET proc == RunCommandWrapper(rp, n)
    IN CASE proc.raised = "TimeoutExpired" -> MkNoRun(0 - 1, "TIMEOUT")
         [] proc.raised = "FileNotFoundError" -> MkNoRun(0 - 127, "pytest not found")
         [] proc.reports ->
              [Pytest(rp, fsys) EXCEPT !.raw_output = proc.stdout \o "\n" \o proc.stderr]
         [] OTHER -> MkNoRun(proc.returncode, proc.stdout \o "\n" \o proc.stderr)

\* AgentState.pytest_json_report, as far as the Classifier reads it: is the
\* dict non-empty, and which tests have outcome failed or error
MkReport(run) == [present |-> run.reported, failed |-> run.failing]
NoReport == [present |-> FALSE, failed |-> {}]

\* ------------------------------------------------------------------------
\* Severity order and the Classifier's pure helpers
\* ------------------------------------------------------------------------
SeverityRank(sev) ==
    CASE sev = "CRITICAL" -> 0
      [] sev = "HIGH"     -> 1
      [] sev = "MEDIUM"   -> 2
      [] sev = "LOW"      -> 3
      [] OTHER            -> 4

\* A message is kept as its first 80 characters and the characters after
\* them ("" when it has no more than 80)
Message(head, rest) == [head |-> head, rest |-> rest]

\* message[:80]
Prefix80(m) == m.head

\* _deduplicate with the whole message in the key
DedupKeyWholeMessage(f) ==
    <<f.failure_type, f.file_path, f.line_number, f.message>>

\* key of FailureClassifierAgent._deduplicate
DedupKey(f) ==
    <<f.failure_type, f.file_path, f.line_number, Prefix80(f.message)>>

RECURSIVE DedupFrom(_, _)
DedupFrom(fs, seen) ==
    IF fs = <<>> THEN <<>>
    ELSE IF DedupKey(Head(fs)) \in seen
         THEN DedupFrom(Tail(fs), seen)
         ELSE <<Head(fs)>> \o DedupFrom(Tail(fs), seen \cup {DedupKey(Head(fs))})

Deduplicate(fs) == DedupFrom(fs, {})

OfRank(fs, r) == SelectSeq(fs, LAMBDA f : SeverityRank(f.severity) = r)

\* the list left in discovery order
KeepDiscoveryOrder(fs) == fs

\* list.sort(key=severity_order): a stable sort on the rank
SortBySeverity(fs) ==
    OfRank(fs, 0) \o OfRank(fs, 1) \o OfRank(fs, 2) \o OfRank(fs, 3) \o OfRank(fs, 4)

MkRaw(type, sev, file, line, msg) ==
    [failure_type |-> type, severity |-> sev, file_path |-> file,
     line_number |-> line, message |-> msg]

\* _classify_ast_failures: a CRITICAL SYNTAX failure per unparsable file
ClassifyAst(rp, fsys) ==
    LET bad == SelectSeq(SourceFileSeq, LAMBDA f : f \in Unparsable(rp, fsys))
    IN [k \in 1..Len(bad) |-> MkRaw("SYNTAX", "CRITICAL", bad[k], 1,
                                  Message("invalid syntax", ""))]

\* _classify_pytest_failures: a typed failure per stack trace (located by
\* the trace's last frame), then a generic TEST_FAILURE per failed test
\* (located by the nodeid)
ClassifyPytest(rp, report) ==
    LET failed == SelectSeq(TestSeq, LAMBDA t : t \in report.failed)
    IN [k \in 1..Len(failed) |->
           IF rp.fault = Untraced
           THEN MkRaw("TYPE_ERROR", "HIGH", "unknown", NoLine,
                      Message("TypeError", ""))
           ELSE IF rp.fault = ImportFault
           THEN MkRaw("IMPORT", "HIGH", TracedFile(failed[k]), 3,
                      Message("No module named", ""))
           ELSE MkRaw("TYPE_ERROR", "HIGH", TracedFile(failed[k]), 3,
                      Message("TypeError", ""))]
       \o [k \in 1..Len(failed) |->
           MkRaw("TEST_FAILURE", "HIGH", TestFile(failed[k]), NoLine,
                 Message("Test failed: " \o failed[k], ""))]

\* steps 1a and 1b of run; the proactive scan of step 3 reports no bug
Discover(rp, fsys, report) ==
    ClassifyAst(rp, fsys)
    \o (IF report.present THEN ClassifyPytest(rp, report) ELSE <<>>)

\* Failure(...): failure_id = uuid4(), unique per constructed object.  The
\* k-th Failure built by the Classifier of iteration it gets the id <<it, k>>.
NewFailureId(it, k) == <<it, k>>

MkFailures(raw, it) ==
    [k \in 1..Len(raw) |->
        [failure_id |-> NewFailureId(it, k),
         failure_type |-> raw[k].failure_type,
         severity |-> raw[k].severity,
         file_path |-> raw[k].file_path,
         line_number |-> raw[k].line_number,
         message |-> raw[k].message,
         root_cause_file |-> None]]

\* ------------------------------------------------------------------------
\* State
\* ------------------------------------------------------------------------
VARIABLES
    pc,                  \* the graph node (or driver position) to run next
    repo,                \* the repository and tools of this run (never assigned)
    max_retries,         \* AgentState.max_retries
    iteration,           \* AgentState.iteration
    current_temperature, \* AgentState.current_temperature
    failures,            \* AgentState.failures
    patches,             \* AgentState.patches
    validation_results,  \* AgentState.validation_results
    fixes,               \* AgentState.fixes
    pytest_exit_code,    \* AgentState.pytest_exit_code
    pytest_json_report,  \* AgentState.pytest_json_report
    ci_status,           \* AgentState.ci_status
    timeline,            \* AgentState.timeline, as the list of event types
    fallback_triggered,  \* AgentState.fallback_triggered
    fatal_error,         \* AgentState.fatal_error
    disk,                \* bytes of each source file of the clone
    v_results,           \* ValidationAgent.run: the local validation_results
    v_runs,              \* the test run behind each v_results entry, and the one before it
    last_run,            \* the last test run on the content the disk holds
    gate,                \* what should_continue returned last
    body_runs,           \* executions of the iteration body started so far
    tool_runs,           \* executions of the test tool so far
    llm_calls,           \* requests sent to the LLM so far
    sink_calls,          \* invocations of on_update so far
    artifact,            \* the results file of the run, as last written
    executed,            \* the graph nodes entered so far, in order
    discovered,          \* FailureClassifierAgent.run: the local failures, before step 4
    scoring,             \* AgentState.scoring
    elapsed_total,       \* _compute_score: the local elapsed_total, in seconds
    origin_url,          \* the URL of the clone's remote origin
    commits,             \* the commits created on the healing branch, in order
    repo_language,       \* AgentState.repo_language
    test_runner_tool,    \* AgentState.test_runner_tool
    futures,             \* RootCauseAgent.run: the state of each submitted future
    failure_writes,      \* the threads that assigned a field of a Failure, in order
    write_lock,          \* orchestrator/main.py: the holder of _write_lock
    run_pc,              \* the position of each concurrent run_healing_agent call
    open_files           \* the runs whose results file is open for writing

vars == <<pc, repo, max_retries, iteration, current_temperature, failures,
          patches, validation_results, fixes, pytest_exit_code,
          pytest_json_report, ci_status, timeline, fallback_triggered,
          fatal_error, disk, v_results, v_runs, last_run, gate, body_runs,
          tool_runs, llm_calls, sink_calls, artifact, executed, discovered,
          scoring, elapsed_total, origin_url, commits, repo_language,
          test_runner_tool, futures, failure_writes, write_lock, run_pc,
          open_files>>

\* _write_lock held by no run (runs are numbered from 1)
Unlocked == 0

\* the variables of the threads of RootCauseAgent.run
ResolverVars == <<futures, failure_writes>>

\* the variables of concurrent calls of run_healing_agent
WriterVars == <<write_lock, run_pc, open_files>>

\* str(state.ci_status).  A state the driver rebuilt from a streamed
\* output holds the member's value (use_enum_values); a state whose
\* ci_status is the field's default or was assigned holds the member of
\* CIStatus (a str-mixin Enum), whose str() is "CIStatus.<NAME>"
ValueStr(status) == status
MemberStr(status) == "CIStatus." \o status

\* the mapping without its first branch
MapStatusRunningOnly(shown) ==
    IF shown \in {"RUNNING", "CIStatus.RUNNING", "IN_PROGRESS"}
    THEN "IN_PROGRESS"
    ELSE shown

\* _write_results: the mapping of str(state.ci_status)
MapStatus(shown) ==
    IF shown = "SUCCESS" THEN "RESOLVED"
    ELSE IF shown \in {"RUNNING", "CIStatus.RUNNING", "IN_PROGRESS"}
    THEN "IN_PROGRESS"
    ELSE shown

\* _write_results: what the results file shows of a state
WriteResults(shown, events) ==
    [ci_status |-> MapStatus(shown), ci_timeline |-> events]

\* _write_failure
WriteFailure ==
    [ci_status |-> "FAILED", ci_timeline |-> <<"Critical Error">>]

\* no results file written by the run yet
NoArtifact == [ci_status |-> None, ci_timeline |-> <<>>]

\* AgentState.scoring = None: no Scoring, so no computation_method
NoScoring == [computation_method |-> None]

\* the URL of the remote origin, as far as _push_to_remote reads and writes
\* it: the host it names, and whether a token is embedded before the host
Url(host, with_token) == [host |-> host, with_token |-> with_token]

\* the defaults of the fields the Scorer does not read, no tool run yet
OtherDefaults ==
    /\ iteration = 0
    /\ patches = <<>>
    /\ pytest_json_report = NoReport
    /\ ci_status = "PENDING"
    /\ timeline = <<>>
    /\ fallback_triggered = FALSE
    /\ v_results = <<>>
    /\ v_runs = <<>>
    /\ last_run = MkRun(0, {}, {}, 0)
    /\ gate = None
    /\ body_runs = 0
    /\ tool_runs = 0
    /\ llm_calls = 0
    /\ sink_calls = 0
    /\ artifact = NoArtifact
    /\ executed = <<>>
    /\ scoring = NoScoring
    /\ elapsed_total = 0
    /\ origin_url = Url(repo.remote.host, FALSE)
    /\ commits = <<>>
    /\ repo_language = "UNKNOWN"
    /\ test_runner_tool = "pytest"
    /\ futures = <<>>
    /\ failure_writes = <<>>
    /\ write_lock = Unlocked
    /\ run_pc = <<>>
    /\ open_files = {}

\* the defaults of AgentState's fields, no tool run yet
Defaults ==
    /\ failures = <<>>
    /\ validation_results = <<>>
    /\ fixes = <<>>
    /\ pytest_exit_code = 0
    /\ fatal_error = None
    /\ OtherDefaults

\* a fresh AgentState over any repository
Fresh ==
    /\ repo \in Repos
    /\ max_retries \in 1..MaxRetriesBound
    /\ disk \in Checkouts
    /\ discovered = <<>>
    /\ Defaults

\* run_healing_pipeline: the initial AgentState
Init ==
    /\ pc = "cicd_feedback"
    /\ current_temperature = OPENAI_TEMPERATURE_START
    /\ Fresh

\* run_healing_pipeline under any of the start temperatures
SettingsInit ==
    /\ pc = "cicd_feedback"
    /\ current_temperature \in TemperatureStarts
    /\ Fresh

\* the driver's loop body for one streamed output: on_update(current_state),
\* with the sink run_healing_agent supplies (update_callback)
OnUpdate ==
    /\ sink_calls' = sink_calls + 1
    /\ artifact' = WriteResults(ValueStr(ci_status'), timeline')

\* the except branch: on_update(final_state), final_state.ci_status just
\* assigned CIStatus.FAILED
OnUpdateAfterCrash ==
    /\ sink_calls' = sink_calls + 1
    /\ artifact' = WriteResults(MemberStr(ci_status'), timeline')

\* ------------------------------------------------------------------------
\* Stages 1-3
\* ------------------------------------------------------------------------
\* _apply_signals, lines 124-129: IMPORT and DEPENDENCY failures become
\* CRITICAL
BoostImports(fs) ==
    [k \in 1..Len(fs) |->
        IF fs[k].failure_type \in {"IMPORT", "DEPENDENCY"}
        THEN [fs[k] EXCEPT !.severity = "CRITICAL"] ELSE fs[k]]

\* _apply_signals, lines 131-139: the first IMPORT failure moves to the
\* front
FirstImportToFront(fs) ==
    LET at == { k \in 1..Len(fs) : fs[k].failure_type = "IMPORT" }
    IN IF at = {} THEN fs
       ELSE LET k == CHOOSE i \in at : \A j \in at : i <= j
            IN <<fs[k]>> \o SubSeq(fs, 1, k - 1) \o SubSeq(fs, k + 1, Len(fs))

\* _apply_signals: the signals from the n-th on, applied to state.failures
RECURSIVE ApplySignals(_, _, _)
ApplySignals(signals, n, fs) ==
    IF n > Len(signals) THEN fs
    ELSE LET boosted == IF signals[n].is_env_issue THEN BoostImports(fs) ELSE fs
             moved == IF signals[n].is_dependency_issue
                      THEN FirstImportToFront(boosted) ELSE boosted
         IN ApplySignals(signals, n + 1, moved)

\* CICDFeedbackAgent.run: without ci_logs it returns at once; with them it
\* applies the signals to state.failures and appends its timeline event
CICDFeedback ==
    /\ pc = "cicd_feedback"
    /\ IF repo.setup.ci_logs.given
       THEN /\ failures' = ApplySignals(repo.setup.ci_logs.errors, 1, failures)
            /\ timeline' = Append(timeline, "CI_FEEDBACK")
       ELSE UNCHANGED <<failures, timeline>>
    /\ pc' = "repo_analyzer"
    /\ UNCHANGED <<repo, max_retries, iteration, current_temperature,
                   patches, validation_results, fixes, pytest_exit_code,
                   pytest_json_report, ci_status, fallback_triggered,
                   fatal_error, disk, v_results, v_runs, last_run, gate,
                   body_runs, tool_runs>>
    /\ UNCHANGED llm_calls
    /\ OnUpdate
    /\ executed' = Append(executed, "cicd_feedback")
    /\ UNCHANGED discovered
    /\ UNCHANGED <<scoring, elapsed_total, origin_url, commits>>
    /\ UNCHANGED <<ResolverVars, WriterVars>>
    /\ UNCHANGED <<repo_language, test_runner_tool>>

\* _detect_language, lines 174-186: the language by the counts of source
\* files
ByCount(c) ==
    IF c.java > c.py /\ c.java > c.node THEN <<"JAVA", "mvn test">>
    ELSE IF c.node > c.py THEN <<"NODE_JS", "npm test">>
    ELSE IF c.py > 0 THEN <<"PYTHON", "pytest">>
    ELSE <<"PYTHON", "pytest">>

\* _detect_language: (LanguageMode, test_runner_tool)
DetectLanguage(root_files, ext_counts) ==
    IF "package.json" \in root_files
    THEN <<"NODE_JS", IF "yarn.lock" \in root_files THEN "yarn test" ELSE "npm test">>
    ELSE IF "pom.xml" \in root_files THEN <<"JAVA", "mvn test">>
    ELSE IF "build.gradle" \in root_files \/ "build.gradle.kts" \in root_files
    THEN <<"JAVA", "gradle test">>
    ELSE IF root_files \cap PythonSignals # {} THEN <<"PYTHON", "pytest">>
    ELSE ByCount(ext_counts)

\* RepoAnalyzerAgent.run
RepoAnalyzer ==
    /\ pc = "repo_analyzer"
    /\ LET detected == DetectLanguage(repo.setup.root_files, repo.setup.ext_counts)
       IN /\ repo_language' = detected[1]
          /\ test_runner_tool' = detected[2]
    /\ timeline' = Append(timeline, "ANALYSIS")
    /\ pc' = "test_runner"
    /\ UNCHANGED <<repo, max_retries, iteration, current_temperature, failures,
                   patches, validation_results, fixes, pytest_exit_code,
                   pytest_json_report, ci_status, fallback_triggered,
                   fatal_error, disk, v_results, v_runs, last_run, gate,
                   body_runs, tool_runs>>
    /\ UNCHANGED llm_calls
    /\ OnUpdate
    /\ executed' = Append(executed, "repo_analyzer")
    /\ UNCHANGED discovered
    /\ UNCHANGED <<scoring, elapsed_total, origin_url, commits>>
    /\ UNCHANGED <<ResolverVars, WriterVars>>

\* TestRunnerAgent.run: one execution of the test tool
TestRunner ==
    /\ pc = "test_runner"
    /\ LET r == ExecutePytest(repo, disk, tool_runs + 1)
       IN /\ pytest_exit_code' = r.exit_code
          /\ pytest_json_report' = MkReport(r)
          /\ last_run' = r
    /\ tool_runs' = tool_runs + 1
    /\ timeline' = Append(timeline, "TEST_RUN")
    /\ body_runs' = body_runs + 1
    /\ pc' = "failure_classifier"
    /\ UNCHANGED <<repo, max_retries, iteration, current_temperature, failures,
                   patches, validation_results, fixes, ci_status,
                   fallback_triggered, fatal_error, disk, v_results, v_runs,
                   gate>>
    /\ UNCHANGED llm_calls
    /\ OnUpdate
    /\ executed' = Append(executed, "test_runner")
    /\ UNCHANGED discovered
    /\ UNCHANGED <<scoring, elapsed_total, origin_url, commits>>
    /\ UNCHANGED <<ResolverVars, WriterVars>>
    /\ UNCHANGED <<repo_language, test_runner_tool>>

\* ------------------------------------------------------------------------
\* Stage 4: FailureClassifierAgent.run
\* ------------------------------------------------------------------------
\* a test that errors in its setup has no "call" entry in the report, so its
\* trace is ""
EmptyTrace(rp, report) ==
    rp.fault.kind = "setup_error" /\ report.present /\ report.failed # {}

\* the driver's except branch leaving ci_status as the last stage left it
ClassifierRaisesStatusKept ==
    /\ pc = "failure_classifier"
    /\ EmptyTrace(repo, pytest_json_report)
    /\ fatal_error' = "IndexError"
    /\ pc' = "halted"
    /\ UNCHANGED <<repo, max_retries, iteration, current_temperature, failures,
                   patches, validation_results, fixes, pytest_exit_code,
                   pytest_json_report, ci_status, timeline, fallback_triggered,
                   disk, v_results, v_runs, last_run, gate, body_runs,
                   tool_runs>>
    /\ UNCHANGED llm_calls
    /\ OnUpdateAfterCrash
    /\ executed' = Append(executed, "failure_classifier")
    /\ UNCHANGED discovered
    /\ UNCHANGED <<scoring, elapsed_total, origin_url, commits>>
    /\ UNCHANGED <<ResolverVars, WriterVars>>
    /\ UNCHANGED <<repo_language, test_runner_tool>>

\* _detect_type ends with trace.splitlines()[0], which raises IndexError on
\* an empty trace; the exception leaves the stage and reaches the driver
\* (run_healing_pipeline's except branch).
ClassifierRaises ==
    /\ pc = "failure_classifier"
    /\ EmptyTrace(repo, pytest_json_report)
    /\ fatal_error' = "IndexError"
    /\ ci_status' = "FAILED"
    /\ pc' = "halted"
    /\ UNCHANGED <<repo, max_retries, iteration, current_temperature, failures,
                   patches, validation_results, fixes, pytest_exit_code,
                   pytest_json_report, timeline, fallback_triggered, disk,
                   v_results, v_runs, last_run, gate, body_runs, tool_runs>>
    /\ UNCHANGED llm_calls
    /\ OnUpdateAfterCrash
    /\ executed' = Append(executed, "failure_classifier")
    /\ UNCHANGED discovered
    /\ UNCHANGED <<scoring, elapsed_total, origin_url, commits>>
    /\ UNCHANGED <<ResolverVars, WriterVars>>
    /\ UNCHANGED <<repo_language, test_runner_tool>>

\* steps 4 and 5 of run, then self.state.failures = failures: the list is
\* rebuilt from this execution's discoveries alone
Classify(raw, it) == SortBySeverity(Deduplicate(MkFailures(raw, it)))

\* step 3 of run, _proactive_llm_scan: with fewer than 3 discoveries and a
\* client, one request per source file that is not a test file
ProactiveScanCalls(rp, raw) ==
    IF Len(raw) < 3 /\ ClientOk(rp) THEN Cardinality(SourceFiles) ELSE 0

FailureClassifier ==
    /\ pc = "failure_classifier"
    /\ ~EmptyTrace(repo, pytest_json_report)
    /\ discovered' = MkFailures(Discover(repo, disk, pytest_json_report), iteration)
    /\ failures' = Classify(Discover(repo, disk, pytest_json_report), iteration)
    /\ llm_calls' = llm_calls
          + ProactiveScanCalls(repo, Discover(repo, disk, pytest_json_report))
    /\ timeline' = Append(timeline, "CLASSIFICATION")
    /\ pc' = "root_cause"
    /\ UNCHANGED <<repo, max_retries, iteration, current_temperature, patches,
                   validation_results, fixes, pytest_exit_code,
                   pytest_json_report, ci_status, fallback_triggered,
                   fatal_error, disk, v_results, v_runs, last_run, gate,
                   body_runs, tool_runs>>
    /\ OnUpdate
    /\ executed' = Append(executed, "failure_classifier")
    /\ UNCHANGED <<scoring, elapsed_total, origin_url, commits>>
    /\ UNCHANGED <<ResolverVars, WriterVars>>
    /\ UNCHANGED <<repo_language, test_runner_tool>>

\* ------------------------------------------------------------------------
\* Stage 5: RootCauseAgent.run
\* ------------------------------------------------------------------------
\* _analyze_static: a test file whose source sibling exists is mapped to it
StaticRoot(file_path) ==
    CASE file_path = "test_a.py" -> "a.py"
      [] file_path = "test_b.py" -> "b.py"
      [] OTHER -> file_path

IsPriority(f) == f.severity \in {"CRITICAL", "HIGH", "MEDIUM"}

\* file_to_failure: the first priority failure of each file_path
IsFileRepresentative(fs, k) ==
    /\ IsPriority(fs[k])
    /\ \A j \in 1..(k - 1) : ~(IsPriority(fs[j]) /\ fs[j].file_path = fs[k].file_path)

\* files whose analysis reaches the LLM (_build_context returns None for "unknown")
LlmAnalysedFiles(fs) ==
    { fs[k].file_path : k \in { i \in 1..Len(fs) : IsFileRepresentative(fs, i) } } \ {"unknown"}

\* the files whose LLM analysis returned parseable JSON; for the others the
\* call raised (or was never made) and _analyze_static ran instead
Answered(rp, fs, fallback) ==
    IF ~fallback /\ ClientOk(rp) /\ LlmOutcome(rp) = "ok"
    THEN LlmAnalysedFiles(fs) ELSE {}

\* _analyze_with_llm: f"{failure.message} | ROOT: {explanation}"
WithRoot(m) ==
    IF m.rest = "" THEN Message(m.head \o " | ROOT", "")
    ELSE Message(m.head, m.rest \o " | ROOT")

\* _analyze_with_llm sends one request per analysed file when use_llm holds
RootCauseCalls(rp, fs, fallback) ==
    IF ~fallback /\ ClientOk(rp) THEN Cardinality(LlmAnalysedFiles(fs)) ELSE 0

\* the static pass that follows overwrites root_cause_file of every failure
RootCause ==
    /\ pc = "root_cause"
    /\ llm_calls' = llm_calls + RootCauseCalls(repo, failures, fallback_triggered)
    /\ LET answered == Answered(repo, failures, fallback_triggered)
       IN failures' =
             [k \in 1..Len(failures) |->
                [failures[k] EXCEPT
                   !.root_cause_file = StaticRoot(failures[k].file_path),
                   !.message =
                      IF IsFileRepresentative(failures, k)
                         /\ failures[k].file_path \in answered
                      THEN WithRoot(failures[k].message)
                      ELSE failures[k].message]]
    /\ timeline' = Append(timeline, "ROOT_CAUSE")
    /\ pc' = "patch_generator"
    /\ UNCHANGED <<repo, max_retries, iteration, current_temperature, patches,
                   validation_results, fixes, pytest_exit_code,
                   pytest_json_report, ci_status, fallback_triggered,
                   fatal_error, disk, v_results, v_runs, last_run, gate,
                   body_runs, tool_runs>>
    /\ OnUpdate
    /\ executed' = Append(executed, "root_cause")
    /\ UNCHANGED discovered
    /\ UNCHANGED <<scoring, elapsed_total, origin_url, commits>>
    /\ UNCHANGED <<ResolverVars, WriterVars>>
    /\ UNCHANGED <<repo_language, test_runner_tool>>

\* ------------------------------------------------------------------------
\* Stage 6: PatchGeneratorAgent.run
\* ------------------------------------------------------------------------
\* the rewritten text of a target file (None: the answer holds no code,
\* or no rule matched)
RewriteOf(rp, target) == IF rp.rewrite[target].made THEN "v1" ELSE None

\* Patch(...): patch_id = uuid4(); the patch built for the k-th failure of
\* iteration it gets the id <<it, k>>
NewPatchId(it, k) == <<it, k>>

\* diff_lines stands for patch.diff: the number of its lines that start
\* with "+" or "-" and are not the file header
MkPatch(it, k, f, target, original, code, diff_lines) ==
    [patch_id |-> NewPatchId(it, k), failure_id |-> f.failure_id,
     file_path |-> target, original_code |-> original, patched_code |-> code,
     diff_lines |-> diff_lines, validated |-> FALSE]

\* _validate_syntax of the rewritten text of a Python file: ast.parse
ValidateSyntax(rw) == rw.parses

\* _fallback_patch: None when the rules change nothing, or when the result
\* does not parse
FallbackPatch(it, k, f, target, original, code, rw) ==
    IF code = None \/ code = original THEN <<>>
    ELSE IF ~ValidateSyntax(rw) THEN <<>>
    ELSE <<MkPatch(it, k, f, target, original, code, rw.diff_lines)>>

\* _generate_patch on a successful LLM call: None when the syntax gate or
\* the size gate refuses
LlmPatch(it, k, f, target, original, code, rw) ==
    IF code = None THEN <<>>
    ELSE IF ~ValidateSyntax(rw) THEN <<>>
    ELSE IF rw.diff_lines > PATCH_MAX_LINES THEN <<>>
    ELSE <<MkPatch(it, k, f, target, original, code, rw.diff_lines)>>

\* run, line 109, skipping nothing but the placeholder
SkipOnlyUnknown(target, processed) == target = "unknown"

\* run, line 109: a processed file and the placeholder are skipped
SkipTarget(target, processed) == target \in processed \/ target = "unknown"

\* the loop of run over failures k..Len(fs); acc carries patches,
\* processed_files, _use_fallback, state.fallback_triggered and the number
\* of self.llm.complete calls made
RECURSIVE GenPatches(_, _, _, _, _, _)
GenPatches(fs, k, it, fsys, rp, acc) ==
    IF k > Len(fs) THEN acc
    ELSE
      LET f == fs[k]
          target == IF f.root_cause_file # None THEN f.root_cause_file ELSE f.file_path
      IN IF SkipTarget(target, acc.processed)
         THEN GenPatches(fs, k + 1, it, fsys, rp, acc)
         ELSE IF target \notin DOMAIN fsys
         THEN GenPatches(fs, k + 1, it, fsys, rp, acc)
         ELSE
           LET original == ReadText(fsys[target])
               llm == LlmOutcome(rp)
               code == RewriteOf(rp, target)
               viaLlm == ~acc.use_fallback /\ llm = "ok"
               new == IF viaLlm
                      THEN LlmPatch(it, k, f, target, original, code,
                                    rp.rewrite[target])
                      ELSE FallbackPatch(it, k, f, target, original, code,
                                         rp.rewrite[target])
           IN GenPatches(fs, k + 1, it, fsys, rp,
                [patches |-> acc.patches \o new,
                 processed |-> IF new # <<>> THEN acc.processed \cup {target}
                               ELSE acc.processed,
                 use_fallback |-> acc.use_fallback
                                  \/ (~acc.use_fallback /\ llm = "rate"),
                 fallback_triggered |-> acc.fallback_triggered
                                  \/ (~acc.use_fallback /\ llm # "ok"),
                 calls |-> IF acc.use_fallback THEN acc.calls
                           ELSE acc.calls + 1])

\* __init__ (llm is None and _use_fallback starts True when get_llm_client()
\* raised), then run
PatchGenerator ==
    /\ pc = "patch_generator"
    /\ LET out == GenPatches(failures, 1, iteration, disk, repo,
                             [patches |-> <<>>, processed |-> {},
                              use_fallback |-> ~ClientOk(repo),
                              fallback_triggered |-> fallback_triggered,
                              calls |-> 0])
       IN /\ patches' = out.patches
          /\ fallback_triggered' = out.fallback_triggered
          /\ llm_calls' = llm_calls + out.calls
    /\ timeline' = Append(timeline, "PATCH_GENERATION")
    /\ pc' = "validation"
    /\ UNCHANGED <<repo, max_retries, iteration, current_temperature, failures,
                   validation_results, fixes, pytest_exit_code,
                   pytest_json_report, ci_status, fatal_error, disk, v_results,
                   v_runs, last_run, gate, body_runs, tool_runs>>
    /\ OnUpdate
    /\ executed' = Append(executed, "patch_generator")
    /\ UNCHANGED discovered
    /\ UNCHANGED <<scoring, elapsed_total, origin_url, commits>>
    /\ UNCHANGED <<ResolverVars, WriterVars>>
    /\ UNCHANGED <<repo_language, test_runner_tool>>

\* ------------------------------------------------------------------------
\* Stage 7: ValidationAgent
\* ------------------------------------------------------------------------
Max0(n) == IF n > 0 THEN n ELSE 0

MkResult(patch, ok, before, after, fixed, introduced, reason) ==
    [patch_id |-> patch.patch_id, passed |-> ok, tests_before |-> before,
     tests_after |-> after, tests_fixed |-> fixed,
     new_failures_introduced |-> introduced, tests_regressed |-> 0,
     rejection_reason |-> reason]

\* _validate_patch accepting a patch that fixed no test
ValidatePatchResultLenient(patch, baseline_fail_count, run1, previous_exit) ==
    LET tests_before == baseline_fail_count
        tests_after_1 == run1.failed + run1.errors
        new_failures == Max0(tests_after_1 - tests_before)
        tests_fixed == Max0(tests_before - tests_after_1)
    IN IF new_failures > 0
       THEN MkResult(patch, FALSE, tests_before, tests_after_1, tests_fixed,
                     new_failures, "Introduced new failures")
       ELSE MkResult(patch, TRUE, tests_before, tests_after_1, tests_fixed, 0, None)

\* _validate_patch after the apply and the test run: run1 is the run's result,
\* previous_exit is state.pytest_exit_code
ValidatePatchResult(patch, baseline_fail_count, run1, previous_exit) ==
    LET tests_before == baseline_fail_count
        tests_after_1 == run1.failed + run1.errors
        new_failures == Max0(tests_after_1 - tests_before)
        tests_fixed == Max0(tests_before - tests_after_1)
    IN IF run1.exit_code = 5 \/ (tests_before = 0 /\ run1.exit_code # 1)
       THEN MkResult(patch, TRUE, tests_before, tests_after_1, 1, 0, None)
       ELSE IF previous_exit = 2 /\ run1.exit_code = 1 /\ run1.passed > 0
       THEN MkResult(patch, TRUE, tests_before, tests_after_1, run1.passed, 0, None)
       ELSE IF new_failures > 0
       THEN MkResult(patch, FALSE, tests_before, tests_after_1, tests_fixed,
                     new_failures, "Introduced new failures")
       ELSE IF tests_after_1 >= tests_before /\ tests_before > 0
       THEN MkResult(patch, FALSE, tests_before, tests_after_1, tests_fixed,
                     0, "No tests fixed by this patch")
       ELSE MkResult(patch, TRUE, tests_before, tests_after_1, tests_fixed, 0, None)

\* run, up to the loop: the locals start empty
ValidationBegin ==
    /\ pc = "validation"
    /\ v_results' = <<>>
    /\ v_runs' = <<>>
    /\ pc' = "validation_loop"
    /\ UNCHANGED <<repo, max_retries, iteration, current_temperature, failures,
                   patches, validation_results, fixes, pytest_exit_code,
                   pytest_json_report, ci_status, timeline, fallback_triggered,
                   fatal_error, disk, last_run, gate, body_runs, tool_runs>>
    /\ UNCHANGED llm_calls
    /\ UNCHANGED <<sink_calls, artifact>>
    /\ executed' = Append(executed, "validation")
    /\ UNCHANGED discovered
    /\ UNCHANGED <<scoring, elapsed_total, origin_url, commits>>
    /\ UNCHANGED <<ResolverVars, WriterVars>>
    /\ UNCHANGED <<repo_language, test_runner_tool>>

\* one pass of the loop of run: apply, run the tests, judge, keep or roll back
ValidatePatch ==
    /\ pc = "validation_loop"
    /\ Len(v_results) < Len(patches)
    /\ LET i == Len(v_results) + 1
           patch == patches[i]
           applied == ApplyCode(disk, patch.file_path, patch.patched_code)
           run1 == ExecutePytest(repo, applied, tool_runs + 1)
           result == ValidatePatchResult(patch, Len(failures), run1,
                                         pytest_exit_code)
       IN /\ v_results' = Append(v_results, result)
          /\ v_runs' = Append(v_runs,
                 [run |-> run1,
                  previous_exit |-> pytest_exit_code,
                  prior |-> last_run])
          /\ IF result.passed
             THEN /\ patches' = [patches EXCEPT ![i].validated = TRUE]
                  /\ disk' = applied
                  /\ last_run' = run1
             ELSE /\ patches' = patches
                  /\ disk' = ApplyCode(applied, patch.file_path,
                                       patch.original_code)
                  /\ last_run' = last_run
    /\ tool_runs' = tool_runs + 1
    /\ UNCHANGED <<pc, repo, max_retries, iteration, current_temperature,
                   failures, validation_results, fixes, pytest_exit_code,
                   pytest_json_report, ci_status, timeline, fallback_triggered,
                   fatal_error, gate, body_runs>>
    /\ UNCHANGED llm_calls
    /\ UNCHANGED <<sink_calls, artifact>>
    /\ UNCHANGED executed
    /\ UNCHANGED discovered
    /\ UNCHANGED <<scoring, elapsed_total, origin_url, commits>>
    /\ UNCHANGED <<ResolverVars, WriterVars>>
    /\ UNCHANGED <<repo_language, test_runner_tool>>

\* failure_map.get(patch.failure_id): <<>> for a miss, else the one failure
\* the dict holds under the id (the last one built with it)
FailureById(fs, id) ==
    LET ks == { k \in 1..Len(fs) : fs[k].failure_id = id }
    IN IF ks = {} THEN <<>>
       ELSE << fs[CHOOSE k \in ks : \A j \in ks : j <= k] >>

\* _build_fix_records over the accepted patches, in order
RECURSIVE BuildFixRecords(_, _)
BuildFixRecords(accepted, fs) ==
    IF accepted = <<>> THEN <<>>
    ELSE LET patch == Head(accepted)
             found == FailureById(fs, patch.failure_id)
         IN (IF found = <<>> THEN <<>>
             ELSE << [failure_id |-> patch.failure_id,
                      patch_id |-> patch.patch_id,
                      failure_type |-> found[1].failure_type,
                      file_path |-> patch.file_path,
                      validated |-> TRUE,
                      commit_sha |-> NoSha] >>)
            \o BuildFixRecords(Tail(accepted), fs)

\* accepted_patches holding every patch, whatever its result
AcceptedPatchesAll(ps, results) == ps

\* accepted_patches: the patches whose result passed, in patch order
AcceptedPatches(ps, results) ==
    LET idx == SelectSeq([k \in 1..Len(ps) |-> k], LAMBDA k : results[k].passed)
    IN [j \in 1..Len(idx) |-> ps[idx[j]]]

\* run, after the loop
ValidationEnd ==
    /\ pc = "validation_loop"
    /\ Len(v_results) = Len(patches)
    /\ validation_results' = v_results
    /\ fixes' = fixes \o BuildFixRecords(AcceptedPatches(patches, v_results), failures)
    /\ timeline' = Append(timeline, "VALIDATION")
    /\ pc' = "commit_optimizer"
    /\ UNCHANGED <<repo, max_retries, iteration, current_temperature, failures,
                   patches, pytest_exit_code, pytest_json_report, ci_status,
                   fallback_triggered, fatal_error, disk, v_results, v_runs,
                   last_run, gate, body_runs, tool_runs>>
    /\ UNCHANGED llm_calls
    /\ OnUpdate
    /\ UNCHANGED executed
    /\ UNCHANGED discovered
    /\ UNCHANGED <<scoring, elapsed_total, origin_url, commits>>
    /\ UNCHANGED <<ResolverVars, WriterVars>>
    /\ UNCHANGED <<repo_language, test_runner_tool>>

\* ------------------------------------------------------------------------
\* Stage 8: CommitOptimizerAgent.run
\* ------------------------------------------------------------------------
\* _group_and_commit keeping only the fixes of the iteration it commits in
GroupAndCommitLatest(fxs, it) ==
    LET kept == SelectSeq(fxs, LAMBDA f : f.patch_id[1] = it)
    IN [k \in 1..Len(kept) |-> [kept[k] EXCEPT !.commit_sha = <<it, kept[k].failure_type>>]]

\* _group_and_commit: one commit per failure_type group; every fix of the
\* group takes the commit's sha (a group holds fewer than 10 fixes here, so
\* the fixes[:10] slice is the whole group).  <<it, type>> names the commit
\* made for the group of that type in iteration it.
GroupAndCommit(fxs, it) ==
    [k \in 1..Len(fxs) |-> [fxs[k] EXCEPT !.commit_sha = <<it, fxs[k].failure_type>>]]

\* git.Repo or the checkout raises in this run; run logs it and returns
GitOk(rp) == rp.fault.kind # "git"

\* sorted(groups.items()): the failure types in the order of their names
TypeOrder == <<"SYNTAX", "TEST_FAILURE", "TYPE_ERROR">>

\* commit_shas of _group_and_commit: the commits it creates, one per
\* failure_type among the fixes, in the order of TypeOrder
GroupCommits(fxs, it) ==
    LET present == SelectSeq(TypeOrder,
                       LAMBDA t : \E j \in 1..Len(fxs) : fxs[j].failure_type = t)
    IN [k \in 1..Len(present) |-> <<it, present[k]>>]

\* run, line 62: repo_url is neither a path nor a file:// URL
IsRemoteUrl(rm) == rm.host # "local"

\* the new_url of _push_to_remote: the token before the host
InjectToken(url) == Url(url.host, TRUE)

\* _push_to_remote: the URL of origin when it returns.  Without a token it
\* returns at once; else the token is embedded in a github.com URL, and
\* the saved URL is set again after the push unless the push raised
PushToRemote(url, rm) ==
    IF ~rm.token THEN url
    ELSE LET embedded == IF url.host = "github.com" THEN InjectToken(url)
                         ELSE url
         IN IF rm.push_raises THEN embedded ELSE url

CommitOptimizer ==
    /\ pc = "commit_optimizer"
    /\ IF fixes # <<>> /\ GitOk(repo)
       THEN LET commit_shas == GroupCommits(fixes, iteration)
                pushes == commit_shas # <<>> /\ IsRemoteUrl(repo.remote)
            IN /\ fixes' = GroupAndCommit(fixes, iteration)
               /\ commits' = commits \o commit_shas
               /\ origin_url' = IF pushes
                                THEN PushToRemote(origin_url, repo.remote)
                                ELSE origin_url
               /\ timeline' = timeline \o <<"COMMIT_START">>
                                \o (IF pushes THEN <<"PUSH_START">> ELSE <<>>)
                                \o <<"COMMIT_COMPLETE">>
       ELSE UNCHANGED <<fixes, timeline, commits, origin_url>>
    /\ pc' = "gate"
    /\ UNCHANGED <<repo, max_retries, iteration, current_temperature, failures,
                   patches, validation_results, pytest_exit_code,
                   pytest_json_report, ci_status, fallback_triggered,
                   fatal_error, disk, v_results, v_runs, last_run, gate,
                   body_runs, tool_runs>>
    /\ UNCHANGED llm_calls
    /\ OnUpdate
    /\ executed' = Append(executed, "commit_optimizer")
    /\ UNCHANGED discovered
    /\ UNCHANGED <<scoring, elapsed_total>>
    /\ UNCHANGED <<ResolverVars, WriterVars>>
    /\ UNCHANGED <<repo_language, test_runner_tool>>

\* ------------------------------------------------------------------------
\* The convergence gate: should_continue
\* ------------------------------------------------------------------------
HasFix(f, fxs) == \E j \in 1..Len(fxs) : fxs[j].failure_id = f.failure_id

\* remaining_failures counting every failure, fixed or not
RemainingIgnoringFixes(fs, fxs) == Len(fs)

remaining_failures(fs, fxs) ==
    Cardinality({ k \in 1..Len(fs) : ~HasFix(fs[k], fxs) })

\* should_continue with the retry cap tested one iteration late
ShouldContinueLate(fatal, fs, fxs, exit_code, ps, it, maxr) ==
    IF fatal # None THEN "score"
    ELSE IF Cardinality({ k \in 1..Len(fs) :
                ~\E j \in 1..Len(fxs) : fxs[j].failure_id = fs[k].failure_id }) = 0
    THEN "score"
    ELSE IF exit_code = 5 /\ Len(fxs) > 0 THEN "score"
    ELSE IF ps = <<>> /\ it > 0 THEN "score"
    ELSE IF it >= maxr + 1 THEN "score"
    ELSE "retry"

\* the value should_continue returns
ShouldContinue(fatal, fs, fxs, exit_code, ps, it, maxr) ==
    IF fatal # None THEN "score"
    ELSE IF remaining_failures(fs, fxs) = 0 THEN "score"
    ELSE IF exit_code = 5 /\ Len(fxs) > 0 THEN "score"
    ELSE IF ps = <<>> /\ it > 0 THEN "score"
    ELSE IF it >= maxr THEN "score"
    ELSE "retry"

MaxOf(a, b) == IF a >= b THEN a ELSE b

\* current_temperature halved
CooledByHalf(t) == t \div 2

\* current_temperature * 0.75
Cooled(t) == (t * 3) \div 4

\* the conditional edge with a retry that advances the iteration by two
GateAdvancesTwice ==
    /\ pc = "gate"
    /\ LET d == ShouldContinue(fatal_error, failures, fixes, pytest_exit_code,
                               patches, iteration, max_retries)
       IN /\ gate' = d
          /\ IF d = "retry"
             THEN /\ iteration' = iteration + 2
                  /\ current_temperature' =
                        MaxOf(OPENAI_TEMPERATURE_MIN, Cooled(current_temperature))
                  /\ pc' = "test_runner"
             ELSE /\ UNCHANGED <<iteration, current_temperature>>
                  /\ pc' = "scoring"
    /\ UNCHANGED <<repo, max_retries, failures, patches, validation_results,
                   fixes, pytest_exit_code, pytest_json_report, ci_status,
                   timeline, fallback_triggered, fatal_error, disk, v_results,
                   v_runs, last_run, body_runs, tool_runs>>
    /\ UNCHANGED llm_calls
    /\ UNCHANGED <<sink_calls, artifact>>
    /\ UNCHANGED executed
    /\ UNCHANGED discovered
    /\ UNCHANGED <<scoring, elapsed_total, origin_url, commits>>
    /\ UNCHANGED <<ResolverVars, WriterVars>>
    /\ UNCHANGED <<repo_language, test_runner_tool>>

\* the conditional edge with "retry" mapped to failure_classifier
GateRetriesAtClassifier ==
    /\ pc = "gate"
    /\ LET d == ShouldContinue(fatal_error, failures, fixes, pytest_exit_code,
                               patches, iteration, max_retries)
       IN /\ gate' = d
          /\ IF d = "retry"
             THEN /\ iteration' = iteration + 1
                  /\ current_temperature' =
                        MaxOf(OPENAI_TEMPERATURE_MIN, Cooled(current_temperature))
                  /\ pc' = "failure_classifier"
             ELSE /\ UNCHANGED <<iteration, current_temperature>>
                  /\ pc' = "scoring"
    /\ UNCHANGED <<repo, max_retries, failures, patches, validation_results,
                   fixes, pytest_exit_code, pytest_json_report, ci_status,
                   timeline, fallback_triggered, fatal_error, disk, v_results,
                   v_runs, last_run, body_runs, tool_runs>>
    /\ UNCHANGED llm_calls
    /\ UNCHANGED <<sink_calls, artifact>>
    /\ UNCHANGED executed
    /\ UNCHANGED discovered
    /\ UNCHANGED <<scoring, elapsed_total, origin_url, commits>>
    /\ UNCHANGED <<ResolverVars, WriterVars>>
    /\ UNCHANGED <<repo_language, test_runner_tool>>

\* the conditional edge after commit_optimizer; on "retry" should_continue
\* has advanced the iteration and cooled the temperature
Gate ==
    /\ pc = "gate"
    /\ LET d == ShouldContinue(fatal_error, failures, fixes, pytest_exit_code,
                               patches, iteration, max_retries)
       IN /\ gate' = d
          /\ IF d = "retry"
             THEN /\ iteration' = iteration + 1
                  /\ current_temperature' =
                        MaxOf(OPENAI_TEMPERATURE_MIN, Cooled(current_temperature))
                  /\ pc' = "test_runner"
             ELSE /\ UNCHANGED <<iteration, current_temperature>>
                  /\ pc' = "scoring"
    /\ UNCHANGED <<repo, max_retries, failures, patches, validation_results,
                   fixes, pytest_exit_code, pytest_json_report, ci_status,
                   timeline, fallback_triggered, fatal_error, disk, v_results,
                   v_runs, last_run, body_runs, tool_runs>>
    /\ UNCHANGED llm_calls
    /\ UNCHANGED <<sink_calls, artifact>>
    /\ UNCHANGED executed
    /\ UNCHANGED discovered
    /\ UNCHANGED <<scoring, elapsed_total, origin_url, commits>>
    /\ UNCHANGED <<ResolverVars, WriterVars>>
    /\ UNCHANGED <<repo_language, test_runner_tool>>

\* ------------------------------------------------------------------------
\* Stage 9: ScoringAgent.run (the ci_status resolution)
\* ------------------------------------------------------------------------
\* the resolution with the rule for any fix tried before the rule for a
\* repository without tests
ResolveStatusFixesFirst(fatal, fs, fxs, exit_code) ==
    IF fatal # None THEN "FAILED"
    ELSE IF remaining_failures(fs, fxs) = 0 THEN "SUCCESS"
    ELSE IF fxs # <<>> THEN "PARTIAL"
    ELSE IF fxs # <<>> /\ exit_code = 5 THEN "SUCCESS"
    ELSE "FAILED"

\* run, lines 41-58
ResolveStatus(fatal, fs, fxs, exit_code) ==
    IF fatal # None THEN "FAILED"
    ELSE IF remaining_failures(fs, fxs) = 0 THEN "SUCCESS"
    ELSE IF fxs # <<>> /\ exit_code = 5 THEN "SUCCESS"
    ELSE IF fxs # <<>> THEN "PARTIAL"
    ELSE "FAILED"

\* scores are floats; they are kept as integers in units of 0.001
Points(n) == n * 1000

\* round(x, 2) of x >= 0: the nearest multiple of 0.01, a tie going to the
\* even one
Round2(x) ==
    LET q == x \div 10
        r == x % 10
    IN IF r > 5 \/ (r = 5 /\ q % 2 = 1) THEN (q + 1) * 10 ELSE q * 10

\* time.time() - start_time as _compute_score may read it, in seconds: the
\* two sides of the 300 s mark
ElapsedTimes == {299, 300}

\* len(state.fixes), validated or not
CountAllFixes(fxs) == Len(fxs)

\* actual_fixes = len([f for f in state.fixes if f.validated])
ActualFixes(fxs) == Len(SelectSeq(fxs, LAMBDA f : f.validated))

\* sum(r.tests_regressed for r in state.validation_results)
RECURSIVE TotalRegressions(_)
TotalRegressions(results) ==
    IF results = <<>> THEN 0
    ELSE Head(results).tests_regressed + TotalRegressions(Tail(results))

\* the total without the floor at 0
TotalUnclamped(base, speed_bonus, regression_penalty) ==
    base + speed_bonus - regression_penalty

\* total = max(0.0, base + speed_bonus - regression_penalty)
Total(base, speed_bonus, regression_penalty) ==
    Max0(base + speed_bonus - regression_penalty)

\* _compute_score
ComputeScore(fxs, results, elapsed, it, fs) ==
    LET actual_fixes == ActualFixes(fxs)
        base == Points(100)
        speed_bonus == IF elapsed < 300 THEN Points(10) ELSE 0
        penalty_count == Max0(actual_fixes - 20)
        efficiency_penalty == penalty_count * Points(2)
        total_regressions == TotalRegressions(results)
        regression_penalty == total_regressions * Points(5) + efficiency_penalty
        total == Total(base, speed_bonus, regression_penalty)
    IN [base_score |-> base,
        speed_factor |-> speed_bonus,
        fix_efficiency |-> Points(actual_fixes),
        regression_penalty |-> regression_penalty,
        ci_success_score |-> 0,
        total_score |-> Round2(total),
        iterations_used |-> it,
        total_possible_fixes |-> Len(fs),
        actual_fixes |-> actual_fixes,
        computation_method |-> "rift_2026_standard"]

\* ScoringAgent.run
Scoring ==
    /\ pc = "scoring"
    /\ ci_status' = ResolveStatus(fatal_error, failures, fixes, pytest_exit_code)
    /\ \E e \in ElapsedTimes :
          /\ elapsed_total' = e
          /\ scoring' = ComputeScore(fixes, validation_results, e, iteration,
                                     failures)
    /\ timeline' = Append(timeline, "SCORING")
    /\ pc' = "done"
    /\ UNCHANGED <<repo, max_retries, iteration, current_temperature, failures,
                   patches, validation_results, fixes, pytest_exit_code,
                   pytest_json_report, fallback_triggered, fatal_error, disk,
                   v_results, v_runs, last_run, gate, body_runs, tool_runs>>
    /\ UNCHANGED llm_calls
    /\ OnUpdate
    /\ executed' = Append(executed, "scoring")
    /\ UNCHANGED discovered
    /\ UNCHANGED <<origin_url, commits>>
    /\ UNCHANGED <<ResolverVars, WriterVars>>
    /\ UNCHANGED <<repo_language, test_runner_tool>>

\* ------------------------------------------------------------------------
\* The graph of build_healing_graph, driven by run_healing_pipeline
\* ------------------------------------------------------------------------
Next ==
    \/ CICDFeedback
    \/ RepoAnalyzer
    \/ TestRunner
    \/ ClassifierRaises
    \/ FailureClassifier
    \/ RootCause
    \/ PatchGenerator
    \/ ValidationBegin
    \/ ValidatePatch
    \/ ValidationEnd
    \/ CommitOptimizer
    \/ Gate
    \/ Scoring

Spec == Init /\ [][Next]_vars

\* the driver keeps pulling the graph's stream until it ends
FairSpec == Spec /\ WF_vars(Next)

\* ------------------------------------------------------------------------
\* run_healing_agent, the entry point behind the API's /run-agent
\* ------------------------------------------------------------------------
\* what run_healing_agent neither reads nor writes before the pipeline runs
PipelineVars ==
    <<repo, max_retries, iteration, current_temperature, failures, patches,
      validation_results, fixes, pytest_exit_code, pytest_json_report,
      ci_status, fallback_triggered, fatal_error, disk, v_results, v_runs,
      last_run, gate, body_runs, tool_runs, llm_calls, sink_calls, executed,
      discovered, scoring, elapsed_total, origin_url, commits, repo_language,
      test_runner_tool, futures, failure_writes, write_lock, run_pc,
      open_files>>

\* the call of run_healing_agent, its imports done, over any repository
AgentInit ==
    /\ pc = "run_healing_agent"
    /\ current_temperature = OPENAI_TEMPERATURE_START
    /\ Fresh

\* initial_state with the INITIALIZATION event, written to the results file
AgentInitialize ==
    /\ pc = "run_healing_agent"
    /\ timeline' = <<"INITIALIZATION">>
    /\ artifact' = WriteResults(MemberStr(ci_status), timeline')
    /\ pc' = "agent_cloning"
    /\ UNCHANGED PipelineVars

\* the CLONING event, written to the results file
AgentStartCloning ==
    /\ pc = "agent_cloning"
    /\ timeline' = Append(timeline, "CLONING")
    /\ artifact' = WriteResults(MemberStr(ci_status), timeline')
    /\ pc' = "agent_clone"
    /\ UNCHANGED PipelineVars

\* the copy or Repo.clone_from: on success the CLONING_COMPLETE event is
\* written; an exception (FileNotFoundError, a git error) reaches the
\* except branch, which calls _write_failure
AgentClone ==
    /\ pc = "agent_clone"
    /\ \E cloned \in BOOLEAN :
          IF cloned
          THEN /\ timeline' = Append(timeline, "CLONING_COMPLETE")
               /\ artifact' = WriteResults(MemberStr(ci_status), timeline')
               /\ pc' = "agent_pipeline"
          ELSE /\ timeline' = timeline
               /\ artifact' = WriteFailure
               /\ pc' = "agent_failed"
    /\ UNCHANGED PipelineVars

\* run_healing_pipeline(..., initial_state=initial_state): the function has
\* no parameter initial_state, so the call raises TypeError before any
\* stage runs; the except branch calls _write_failure
AgentRunPipeline ==
    /\ pc = "agent_pipeline"
    /\ artifact' = WriteFailure
    /\ pc' = "agent_failed"
    /\ UNCHANGED timeline
    /\ UNCHANGED PipelineVars

AgentNext ==
    \/ AgentInitialize
    \/ AgentStartCloning
    \/ AgentClone
    \/ AgentRunPipeline

AgentSpec == AgentInit /\ [][AgentNext]_vars

\* ------------------------------------------------------------------------
\* Steps 4 and 5 of FailureClassifierAgent.run on any discovered list
\* ------------------------------------------------------------------------
\* what the three discovery passes can append: any type and severity (the
\* proactive scan takes both from the LLM's answer), and messages that
\* agree or differ within and after their first 80 characters
DiscoveredRaw ==
    { MkRaw(t, sev, "a.py", 1, m) :
        t \in {"SYNTAX", "LOGIC"},
        sev \in {"CRITICAL", "HIGH", "MEDIUM", "LOW"},
        m \in {Message("m", ""), Message("m", "x"), Message("n", "")} }

DiscoveredLists ==
    UNION { [1..n -> DiscoveredRaw] : n \in 0..MaxDiscovered }

\* a sound repository; steps 4 and 5 read nothing of it
SoundRepo ==
    [has_tests |-> TRUE, kind0 |-> [f \in SourceFiles |-> "ok"],
     rewrite |-> [f \in SourceFiles |-> NoRewrite],
     fault |-> [kind |-> "none", at |-> 0],
     remote |-> LocalRemote, setup |-> PlainSetup]

\* run at line 198: the local list failures holds what was discovered
ClassifierInit ==
    /\ pc = "classifier_deduplicate"
    /\ current_temperature = OPENAI_TEMPERATURE_START
    /\ repo = SoundRepo
    /\ max_retries = 1
    /\ disk \in { d \in Checkouts : \A f \in SourceFiles : ~d[f].crlf }
    /\ discovered \in { MkFailures(raw, 0) : raw \in DiscoveredLists }
    /\ Defaults

\* run, lines 198-205: deduplicate, sort, assign to state.failures
ClassifySteps ==
    /\ pc = "classifier_deduplicate"
    /\ failures' = SortBySeverity(Deduplicate(discovered))
    /\ pc' = "classifier_sorted"
    /\ UNCHANGED <<repo, max_retries, iteration, current_temperature, patches,
                   validation_results, fixes, pytest_exit_code,
                   pytest_json_report, ci_status, timeline, fallback_triggered,
                   fatal_error, disk, v_results, v_runs, last_run, gate,
                   body_runs, tool_runs, llm_calls, sink_calls, artifact,
                   executed, discovered, scoring, elapsed_total, origin_url,
                   commits>>
    /\ UNCHANGED <<ResolverVars, WriterVars>>
    /\ UNCHANGED <<repo_language, test_runner_tool>>

ClassifierNext == ClassifySteps

ClassifierSpec == ClassifierInit /\ [][ClassifierNext]_vars

\* ------------------------------------------------------------------------
\* The pipeline over repositories that try the PatchGenerator's gates
\* ------------------------------------------------------------------------
\* repositories with tests, whose rewrites parse or not and are small or
\* large, and whose stack traces may name no file
GateRepos ==
    [has_tests : {TRUE}, kind0 : [SourceFiles -> Kinds],
     rewrite : [SourceFiles -> GateRewrites],
     fault : { [kind |-> k, at |-> 0] :
                 k \in {"none", "llm_rate", "no_client", "setup_error"} }
             \cup {Untraced},
     remote : {LocalRemote}, setup : {PlainSetup}]

GateInit ==
    /\ pc = "cicd_feedback"
    /\ current_temperature = OPENAI_TEMPERATURE_START
    /\ repo \in GateRepos
    /\ max_retries = 1
    /\ disk \in { d \in Checkouts : \A f \in SourceFiles : ~d[f].crlf }
    /\ discovered = <<>>
    /\ Defaults

GateSpec == GateInit /\ [][Next]_vars

\* the pipeline with the start temperature taken from the environment
SettingsSpec == SettingsInit /\ [][Next]_vars

\* ------------------------------------------------------------------------
\* The pipeline on clones of a remote repository
\* ------------------------------------------------------------------------
\* repositories with tests, cloned from a local path or from a remote
\* host, whose faults are fixed by the rewrite when there is one
PushRepos ==
    [has_tests : {TRUE}, kind0 : [SourceFiles -> Kinds],
     rewrite : [SourceFiles -> {NoRewrite, MkRewrite(TRUE, {}, TRUE, 1)}],
     fault : {[kind |-> "none", at |-> 0], [kind |-> "setup_error", at |-> 0]},
     remote : PushRemotes \cup {LocalRemote}, setup : {PlainSetup}]

PushInit ==
    /\ pc = "cicd_feedback"
    /\ current_temperature = OPENAI_TEMPERATURE_START
    /\ repo \in PushRepos
    /\ max_retries \in 1..MaxRetriesBound
    /\ disk \in { d \in Checkouts : \A f \in SourceFiles : ~d[f].crlf }
    /\ discovered = <<>>
    /\ Defaults

PushSpec == PushInit /\ [][Next]_vars

\* ------------------------------------------------------------------------
\* The pipeline under every permitted MAX_RETRIES, with the bound of
\* graph.stream on the number of nodes it runs
\* ------------------------------------------------------------------------
\* config = {"recursion_limit": 50}: the stream runs at most 50 supersteps,
\* one node each in this graph, and raises GraphRecursionError when a
\* further one is due
RECURSION_LIMIT == 50

\* Settings.MAX_RETRIES: Field(default=5, ge=1, le=10)
MaxRetriesValues == 1..10

\* the nodes of build_healing_graph
GraphNodes ==
    {"cicd_feedback", "repo_analyzer", "test_runner", "failure_classifier",
     "root_cause", "patch_generator", "validation", "commit_optimizer",
     "scoring"}

\* a node is due and the stream has run RECURSION_LIMIT nodes already
OutOfSteps == pc \in GraphNodes /\ Len(executed) >= RECURSION_LIMIT

\* graph.stream raises GraphRecursionError; run_healing_pipeline's except
\* branch records it on the state it saw last
GraphRecursionError ==
    /\ OutOfSteps
    /\ fatal_error' = "GraphRecursionError"
    /\ ci_status' = "FAILED"
    /\ pc' = "halted"
    /\ UNCHANGED <<repo, max_retries, iteration, current_temperature, failures,
                   patches, validation_results, fixes, pytest_exit_code,
                   pytest_json_report, timeline, fallback_triggered, disk,
                   v_results, v_runs, last_run, gate, body_runs, tool_runs>>
    /\ UNCHANGED llm_calls
    /\ OnUpdateAfterCrash
    /\ UNCHANGED <<executed, discovered>>
    /\ UNCHANGED <<scoring, elapsed_total, origin_url, commits>>
    /\ UNCHANGED <<ResolverVars, WriterVars>>
    /\ UNCHANGED <<repo_language, test_runner_tool>>

\* repositories with tests whose rewrites fix the fault, or leave every
\* test failing
StubbornRepos ==
    [has_tests : {TRUE}, kind0 : [SourceFiles -> Kinds],
     rewrite : [SourceFiles -> {NoRewrite, MkRewrite(TRUE, {}, TRUE, 1),
                                MkRewrite(TRUE, Tests, TRUE, 1)}],
     fault : {[kind |-> "none", at |-> 0], [kind |-> "setup_error", at |-> 0]},
     remote : {LocalRemote}, setup : {PlainSetup}]

StreamInit ==
    /\ pc = "cicd_feedback"
    /\ current_temperature = OPENAI_TEMPERATURE_START
    /\ repo \in StubbornRepos
    /\ max_retries \in MaxRetriesValues
    /\ disk \in { d \in Checkouts : \A f \in SourceFiles : ~d[f].crlf }
    /\ discovered = <<>>
    /\ Defaults

StreamNext ==
    \/ (~OutOfSteps /\ Next)
    \/ GraphRecursionError

StreamSpec == StreamInit /\ [][StreamNext]_vars

\* ------------------------------------------------------------------------
\* RootCauseAgent.run thread by thread: the driver and the workers of its
\* ThreadPoolExecutor
\* ------------------------------------------------------------------------
\* the most failing files of a run (one more than the executor has workers)
MaxAnalysed == 5

\* max_workers = min(len(file_to_failure), 4)
MAX_WORKERS == 4

AnalysedFileSeq == <<"a.py", "b.py", "c.py", "d.py", "e.py", "f.py">>

\* the lists of failures: one HIGH failure in each of the first n files
AnalysedFailures(n) ==
    MkFailures([k \in 1..n |-> MkRaw("TYPE_ERROR", "HIGH", AnalysedFileSeq[k], 3,
                                     Message("TypeError", ""))], 0)

\* what the threads of run leave alone
ResolverFrame ==
    <<repo, max_retries, iteration, current_temperature, patches,
      validation_results, fixes, pytest_exit_code, pytest_json_report,
      ci_status, fallback_triggered, fatal_error, disk, v_results, v_runs,
      last_run, gate, body_runs, tool_runs, discovered, scoring,
      elapsed_total, origin_url, commits, repo_language, test_runner_tool,
      WriterVars>>

\* the futures whose call of _analyze_with_llm is running in a worker
InFlight == { k \in 1..Len(futures) : futures[k].state = "RUNNING" }

\* the node is entered with any of the lists of failures
ResolverInit ==
    /\ pc = "root_cause"
    /\ current_temperature = OPENAI_TEMPERATURE_START
    /\ repo \in { r \in Repos :
                    /\ r.has_tests
                    /\ \A f \in SourceFiles : r.kind0[f] = "ok" /\ r.rewrite[f] = NoRewrite
                    /\ r.fault.kind \in {"none", "llm_rate", "llm_error", "no_client"} }
    /\ max_retries = 1
    /\ disk \in { d \in Checkouts : \A f \in SourceFiles : ~d[f].crlf }
    /\ discovered = <<>>
    /\ failures \in { AnalysedFailures(n) : n \in 0..MaxAnalysed }
    /\ validation_results = <<>>
    /\ fixes = <<>>
    /\ pytest_exit_code = 1
    /\ fatal_error = None
    /\ OtherDefaults

\* run, lines 59-91: use_llm, file_to_failure, and one future submitted per
\* file before any result is read; without use_llm the driver goes on to
\* the static pass
ResolverSubmit ==
    /\ pc = "root_cause"
    /\ LET use_llm == ClientOk(repo) /\ ~fallback_triggered
           firsts == SelectSeq([k \in 1..Len(failures) |-> k],
                               LAMBDA k : IsFileRepresentative(failures, k))
       IN IF use_llm /\ firsts # <<>>
          THEN /\ futures' = [i \in 1..Len(firsts) |->
                                [failure |-> firsts[i], state |-> "PENDING",
                                 read |-> FALSE]]
               /\ pc' = "root_cause_results"
          ELSE /\ futures' = <<>>
               /\ pc' = "root_cause_static"
    /\ UNCHANGED <<failures, failure_writes, llm_calls, timeline, sink_calls,
                   artifact, executed>>
    /\ UNCHANGED ResolverFrame

\* a worker thread takes the oldest queued work item; the executor has
\* started at most max_workers threads
WorkerStart ==
    /\ pc = "root_cause_results"
    /\ Cardinality(InFlight) < MAX_WORKERS
    /\ \E i \in 1..Len(futures) :
          /\ futures[i].state = "PENDING"
          /\ \A j \in 1..(i - 1) : futures[j].state # "PENDING"
          /\ futures' = [futures EXCEPT ![i].state = "RUNNING"]
    /\ llm_calls' = llm_calls + 1
    /\ UNCHANGED <<pc, failures, failure_writes, timeline, sink_calls,
                   artifact, executed>>
    /\ UNCHANGED ResolverFrame

\* _analyze_with_llm in a worker, lines 154-175, from the return of
\* self.llm.complete: the worker assigns the fields of its Failure (from
\* the answer, or by _analyze_static when the call raised) and returns
WorkerFinish ==
    /\ pc = "root_cause_results"
    /\ \E i \in InFlight :
          LET k == futures[i].failure
          IN /\ failures' =
                   [failures EXCEPT
                      ![k].root_cause_file =
                          IF LlmOutcome(repo) = "ok" THEN failures[k].file_path
                          ELSE StaticRoot(failures[k].file_path),
                      ![k].message =
                          IF LlmOutcome(repo) = "ok" THEN WithRoot(failures[k].message)
                          ELSE failures[k].message]
             /\ failure_writes' =
                   Append(failure_writes,
                          [thread |-> "worker", failure_id |-> failures[k].failure_id])
             /\ futures' = [futures EXCEPT ![i].state = "FINISHED"]
    /\ UNCHANGED <<pc, llm_calls, timeline, sink_calls, artifact, executed>>
    /\ UNCHANGED ResolverFrame

\* run, lines 92-98: the driver reads the results in submission order,
\* blocking on each future until it has finished; leaving the with block
\* waits for every worker
ResolverResult ==
    /\ pc = "root_cause_results"
    /\ IF \A i \in 1..Len(futures) : futures[i].read
       THEN /\ pc' = "root_cause_static"
            /\ UNCHANGED futures
       ELSE \E i \in 1..Len(futures) :
               /\ ~futures[i].read
               /\ \A j \in 1..(i - 1) : futures[j].read
               /\ futures[i].state = "FINISHED"
               /\ futures' = [futures EXCEPT ![i].read = TRUE]
               /\ UNCHANGED pc
    /\ UNCHANGED <<failures, failure_writes, llm_calls, timeline, sink_calls,
                   artifact, executed>>
    /\ UNCHANGED ResolverFrame

\* run, lines 106-122: the driver's static pass over every failure, the
\* timeline event, and the return to the graph
ResolverStatic ==
    /\ pc = "root_cause_static"
    /\ failures' = [k \in 1..Len(failures) |->
                      [failures[k] EXCEPT
                         !.root_cause_file = StaticRoot(failures[k].file_path)]]
    /\ failure_writes' =
          failure_writes
          \o [k \in 1..Len(failures) |->
                [thread |-> "driver", failure_id |-> failures[k].failure_id]]
    /\ timeline' = Append(timeline, "ROOT_CAUSE")
    /\ pc' = "patch_generator"
    /\ UNCHANGED <<futures, llm_calls>>
    /\ UNCHANGED ResolverFrame
    /\ OnUpdate
    /\ executed' = Append(executed, "root_cause")

ResolverNext ==
    \/ ResolverSubmit
    \/ WorkerStart
    \/ WorkerFinish
    \/ ResolverResult
    \/ ResolverStatic

ResolverSpec == ResolverInit /\ [][ResolverNext]_vars

\* ------------------------------------------------------------------------
\* Concurrent calls of run_healing_agent (background tasks of /run-agent)
\* and their writes of the results files
\* ------------------------------------------------------------------------
\* the most runs in progress at once
MaxRuns == 2

\* a run about to make the write of a stage: its call of the writer has
\* not started yet
AtCall(stage) == [stage |-> stage, writer |-> "call"]

\* what the calls of run_healing_agent leave alone
WriterFrame ==
    <<pc, repo, max_retries, iteration, current_temperature, failures,
      patches, validation_results, fixes, pytest_exit_code,
      pytest_json_report, ci_status, timeline, fallback_triggered,
      fatal_error, disk, v_results, v_runs, last_run, gate, body_runs,
      tool_runs, llm_calls, sink_calls, artifact, executed, discovered,
      scoring, elapsed_total, origin_url, commits, repo_language,
      test_runner_tool, ResolverVars>>

WriterInit ==
    /\ pc = "serving"
    /\ current_temperature = OPENAI_TEMPERATURE_START
    /\ repo = SoundRepo
    /\ max_retries = 1
    /\ disk \in { d \in Checkouts : \A f \in SourceFiles : ~d[f].crlf }
    /\ discovered = <<>>
    /\ Defaults

\* /run-agent: background_tasks.add_task(run_healing_agent, ...); the run
\* builds initial_state and is about to write it
StartRun ==
    /\ Len(run_pc) < MaxRuns
    /\ run_pc' = Append(run_pc, AtCall("INITIALIZATION"))
    /\ UNCHANGED <<write_lock, open_files>>
    /\ UNCHANGED WriterFrame

\* _write_results: with _write_lock
AcquireWriteLock ==
    /\ \E r \in 1..Len(run_pc) :
          /\ run_pc[r].stage \in {"INITIALIZATION", "CLONING", "CLONING_COMPLETE"}
          /\ run_pc[r].writer = "call"
          /\ write_lock = Unlocked
          /\ write_lock' = r
          /\ run_pc' = [run_pc EXCEPT ![r].writer = "locked"]
    /\ UNCHANGED open_files
    /\ UNCHANGED WriterFrame

\* _write_results: with open(result_file, 'w') as f
OpenResultsFile ==
    /\ \E r \in 1..Len(run_pc) :
          /\ run_pc[r].writer = "locked"
          /\ open_files' = open_files \cup {r}
          /\ run_pc' = [run_pc EXCEPT ![r].writer = "open"]
    /\ UNCHANGED write_lock
    /\ UNCHANGED WriterFrame

\* _write_results: json.dump returns, the file is closed and the lock
\* released; run_healing_agent goes on to its next write.  The clone
\* that follows the CLONING write succeeds or raises, and the call
\* run_healing_pipeline(..., initial_state=...) that follows the
\* CLONING_COMPLETE write raises TypeError; the except branch calls
\* _write_failure
CloseResultsFile ==
    /\ \E r \in 1..Len(run_pc) :
          /\ run_pc[r].stage \in {"INITIALIZATION", "CLONING", "CLONING_COMPLETE"}
          /\ run_pc[r].writer = "open"
          /\ open_files' = open_files \ {r}
          /\ write_lock' = Unlocked
          /\ \E cloned \in BOOLEAN :
                run_pc' =
                  [run_pc EXCEPT ![r] =
                     CASE run_pc[r].stage = "INITIALIZATION" -> AtCall("CLONING")
                       [] run_pc[r].stage = "CLONING" ->
                            IF cloned THEN AtCall("CLONING_COMPLETE")
                            ELSE AtCall("FAILURE")
                       [] OTHER -> AtCall("FAILURE")]
    /\ UNCHANGED WriterFrame

\* _write_failure: with open(result_file, 'w') as f
OpenFailureFile ==
    /\ \E r \in 1..Len(run_pc) :
          /\ run_pc[r] = AtCall("FAILURE")
          /\ open_files' = open_files \cup {r}
          /\ run_pc' = [run_pc EXCEPT ![r].writer = "open"]
    /\ UNCHANGED write_lock
    /\ UNCHANGED WriterFrame

\* _write_failure: json.dump returns and the file is closed; the run
\* returns
CloseFailureFile ==
    /\ \E r \in 1..Len(run_pc) :
          /\ run_pc[r].stage = "FAILURE"
          /\ run_pc[r].writer = "open"
          /\ open_files' = open_files \ {r}
          /\ run_pc' = [run_pc EXCEPT ![r] = AtCall("RETURNED")]
    /\ UNCHANGED write_lock
    /\ UNCHANGED WriterFrame

WriterNext ==
    \/ StartRun
    \/ AcquireWriteLock
    \/ OpenResultsFile
    \/ CloseResultsFile
    \/ OpenFailureFile
    \/ CloseFailureFile

WriterSpec == WriterInit /\ [][WriterNext]_vars

\* ------------------------------------------------------------------------
\* The pipeline handed a CI log (run_healing_pipeline's ci_logs)
\* ------------------------------------------------------------------------
\* the most ##[error] lines of a CI log
MaxSignals == 1

\* CI logs: none, or one with up to MaxSignals ##[error] lines, each
\* about the environment, about a dependency, both or neither
CiLogs ==
    {NoLogs}
    \cup { CiLog(e) :
             e \in UNION { [1..n -> { MkSignal(env, dep) : env, dep \in BOOLEAN }] :
                             n \in 0..MaxSignals } }

\* repositories with tests whose failing tests end in a TypeError or in a
\* ModuleNotFoundError, run with any of the CI logs
CiLogRepos ==
    [has_tests : {TRUE}, kind0 : [SourceFiles -> Kinds],
     rewrite : [SourceFiles -> {NoRewrite, MkRewrite(TRUE, {}, TRUE, 1)}],
     fault : {[kind |-> "none", at |-> 0], [kind |-> "setup_error", at |-> 0],
              ImportFault},
     remote : {LocalRemote},
     setup : { MkSetup(FALSE, l, {}, MkCounts(4, 0, 0)) : l \in CiLogs }]

CiLogInit ==
    /\ pc = "cicd_feedback"
    /\ current_temperature = OPENAI_TEMPERATURE_START
    /\ repo \in CiLogRepos
    /\ max_retries = 1
    /\ disk \in { d \in Checkouts : \A f \in SourceFiles : ~d[f].crlf }
    /\ discovered = <<>>
    /\ Defaults

CiLogSpec == CiLogInit /\ [][Next]_vars

\* ------------------------------------------------------------------------
\* The pipeline with the test command run locally or in the container
\* sandbox (settings.USE_DOCKER_SANDBOX)
\* ------------------------------------------------------------------------
\* the test command's binary is not there
NoBinary == [kind |-> "no_binary", at |-> 0]

\* repositories with tests, run under either setting, whose test command
\* exits, exceeds the timeout at its first execution, or is missing
SandboxRepos ==
    [has_tests : {TRUE}, kind0 : [SourceFiles -> Kinds],
     rewrite : [SourceFiles -> {NoRewrite, MkRewrite(TRUE, {}, TRUE, 1)}],
     fault : {[kind |-> "none", at |-> 0], [kind |-> "setup_error", at |-> 0],
              [kind |-> "timeout", at |-> 1], NoBinary},
     remote : {LocalRemote},
     setup : { MkSetup(d, NoLogs, {}, MkCounts(4, 0, 0)) : d \in BOOLEAN }]

SandboxInit ==
    /\ pc = "cicd_feedback"
    /\ current_temperature = OPENAI_TEMPERATURE_START
    /\ repo \in SandboxRepos
    /\ max_retries = 1
    /\ disk \in { d \in Checkouts : \A f \in SourceFiles : ~d[f].crlf }
    /\ discovered = <<>>
    /\ Defaults

SandboxSpec == SandboxInit /\ [][Next]_vars

\* ------------------------------------------------------------------------
\* RepoAnalyzerAgent.run on any repository root
\* ------------------------------------------------------------------------
\* the most source files of one language in a repository
MaxFiles == 2

\* any set of marker files in the root, any counts of source files
AnalyzerRepos ==
    [has_tests : {TRUE}, kind0 : {[f \in SourceFiles |-> "ok"]},
     rewrite : {[f \in SourceFiles |-> NoRewrite]},
     fault : {[kind |-> "none", at |-> 0]},
     remote : {LocalRemote},
     setup : { MkSetup(FALSE, NoLogs, root, MkCounts(py, node, java)) :
                 root \in SUBSET RootMarkers,
                 py \in 0..MaxFiles, node \in 0..MaxFiles, java \in 0..MaxFiles }]

\* the node is entered after cicd_feedback returned without a CI log
AnalyzerInit ==
    /\ pc = "repo_analyzer"
    /\ current_temperature = OPENAI_TEMPERATURE_START
    /\ repo \in AnalyzerRepos
    /\ max_retries = 1
    /\ disk \in { d \in Checkouts : \A f \in SourceFiles : ~d[f].crlf }
    /\ discovered = <<>>
    /\ Defaults

AnalyzerNext == RepoAnalyzer

AnalyzerSpec == AnalyzerInit /\ [][AnalyzerNext]_vars

\* ------------------------------------------------------------------------
\* ScoringAgent.run on any AgentState (the graph, run_demo and the tests
\* construct one and call it)
\* ------------------------------------------------------------------------
\* m failures, with the ids the Classifier gives them
ScoredFailures(m) ==
    MkFailures([k \in 1..m |->
                   MkRaw("SYNTAX", "CRITICAL", SourceFileSeq[k], 1,
                         Message("invalid syntax", ""))], 0)

\* the k-th Fix of a list whose fixes are for the first c failure ids in turn
ScoredFix(k, c, validated) ==
    [failure_id |-> NewFailureId(0, ((k - 1) % c) + 1),
     patch_id |-> NewPatchId(0, k),
     failure_type |-> "SYNTAX",
     file_path |-> "a.py",
     validated |-> validated,
     commit_sha |-> NoSha]

\* fix counts below, at and above the 20 fixes that are free of penalty
ScoredFixCounts == {0, 1, 2, 20, 21, 22}

\* lists of fixes: n fixes over c failure ids, the last u of them not validated
ScoredFixLists ==
    { [k \in 1..n |-> ScoredFix(k, c, k <= n - u)] :
        n \in ScoredFixCounts, c \in 1..2, u \in 0..1 }

ScoredResult(regressed) ==
    [patch_id |-> NewPatchId(0, 1), passed |-> TRUE, tests_before |-> 1,
     tests_after |-> 0, tests_fixed |-> 1, new_failures_introduced |-> 0,
     tests_regressed |-> regressed, rejection_reason |-> None]

\* lists of up to two validation results
ScoredResultLists ==
    UNION { [1..n -> { ScoredResult(r) : r \in {0, 1, MaxRegressed} }] :
              n \in 0..2 }

\* the state handed to ScoringAgent(state)
ScorerInit ==
    /\ pc = "scoring"
    /\ current_temperature = OPENAI_TEMPERATURE_START
    /\ repo = SoundRepo
    /\ max_retries = 1
    /\ disk \in { d \in Checkouts : \A f \in SourceFiles : ~d[f].crlf }
    /\ discovered = <<>>
    /\ failures \in { ScoredFailures(m) : m \in 0..2 }
    /\ fixes \in ScoredFixLists
    /\ validation_results \in ScoredResultLists
    /\ pytest_exit_code \in {0, 1, 5}
    /\ fatal_error \in {None, "error"}
    /\ OtherDefaults

ScorerNext == Scoring

ScorerSpec == ScorerInit /\ [][ScorerNext]_vars

Terminated == pc \in {"done", "halted"}

\* ------------------------------------------------------------------------
\* Properties
\* ------------------------------------------------------------------------
\* C1: under the driver's scheduling every run reaches the end of the Scorer
\* or the fatal halt, having started at most max_retries + 1 executions of
\* the iteration body
C1_Terminates == <>(Terminated /\ body_runs <= max_retries + 1)

\* a run that ends in the Scorer after using every allowed iteration body
C1_Witness ==
    pc = "done" /\ max_retries = MaxRetriesBound /\ body_runs = max_retries + 1

\* C2: in every reachable state iteration <= max_retries
C2_IterationBounded == iteration <= max_retries

\* the gate has stopped a run because the iteration reached max_retries
C2_Witness ==
    pc = "scoring" /\ gate = "score" /\ iteration = max_retries
    /\ patches # <<>> /\ pytest_exit_code # 5

\* the patch the Validator's loop has judged last, and its file's bytes
JudgedPatch == patches[Len(v_results')]
JudgesOne == pc = "validation_loop" /\ Len(v_results') = Len(v_results) + 1

\* C3: whenever the Validator rejects a patch, the bytes of patch.file_path
\* after the rollback equal its bytes before the patch was applied
C3_RollbackIdentical ==
    [][ (JudgesOne /\ ~v_results'[Len(v_results')].passed)
        => disk'[JudgedPatch.file_path] = disk[JudgedPatch.file_path] ]_vars

\* the tests that passed in the run before a patch and fail in its
\* validation run
Regressed(i) == v_runs[i].prior.passing \cap v_runs[i].run.failing

\* C4: a patch whose validation run fails a test that passed before the
\* patch was applied is rejected with new_failures_introduced >= 1
C4_RegressionRejected ==
    \A i \in 1..Len(v_results) :
        Regressed(i) # {}
        => (~v_results[i].passed /\ v_results[i].new_failures_introduced >= 1)

FixesOfPatch(patch) ==
    { j \in 1..Len(fixes) : fixes[j].patch_id = patch.patch_id }

\* C6: once the Validator stage has run, every patch whose result passed
\* has validated = TRUE and exactly one Fix with its patch_id, and a
\* rejected patch has no Fix
C6_AcceptedHaveOneFix ==
    pc \in {"commit_optimizer", "gate", "scoring", "done"}
    => \A i \in 1..Len(patches) :
          IF validation_results[i].passed
          THEN patches[i].validated /\ Cardinality(FixesOfPatch(patches[i])) = 1
          ELSE FixesOfPatch(patches[i]) = {}

\* the Validator has accepted one patch and rejected another
C6_Witness ==
    /\ pc = "commit_optimizer"
    /\ \E i, j \in 1..Len(patches) :
          validation_results[i].passed /\ ~validation_results[j].passed

\* C7: each Fix's failure_id is the failure_id of exactly one Failure of
\* the failures list of the same state
C7_FixesResolve ==
    \A j \in 1..Len(fixes) :
        Cardinality({ k \in 1..Len(failures) :
                        failures[k].failure_id = fixes[j].failure_id }) = 1

\* the same Failure: by its id, or by what it reports and where
SameFailure(f, g) ==
    \/ f.failure_id = g.failure_id
    \/ (f.failure_type = g.failure_type /\ f.file_path = g.file_path
        /\ f.line_number = g.line_number)

\* C8: every Failure in the list before an execution of the Classifier is
\* in the list after it
C8_FailuresNeverShrink ==
    [][ (pc = "failure_classifier" /\ pc' = "root_cause")
        => \A k \in 1..Len(failures) :
              \E j \in 1..Len(failures') : SameFailure(failures[k], failures'[j]) ]_vars

\* C9: no step shortens fixes, and every Fix of the list is in the list
\* after the step
C9_FixesMonotone ==
    [][ /\ Len(fixes') >= Len(fixes)
        /\ \A j \in 1..Len(fixes) :
              \E i \in 1..Len(fixes') :
                 /\ fixes'[i].patch_id = fixes[j].patch_id
                 /\ fixes'[i].failure_id = fixes[j].failure_id ]_vars

\* fixes of two iterations, committed
C9_Witness ==
    /\ Len(fixes) >= 2
    /\ fixes[1].patch_id[1] # fixes[Len(fixes)].patch_id[1]
    /\ fixes[1].commit_sha # NoSha

\* the five conditions of the convergence gate, read off the state
ToScorer ==
    \/ fatal_error # None
    \/ \A k \in 1..Len(failures) :
          \E j \in 1..Len(fixes) : fixes[j].failure_id = failures[k].failure_id
    \/ (pytest_exit_code = 5 /\ Len(fixes) >= 1)
    \/ (Len(patches) = 0 /\ iteration > 0)
    \/ iteration >= max_retries

\* C10: after CommitOptimizer the gate goes to the Scorer exactly when one
\* of the five conditions holds, and back to TestRunner otherwise
C10_GateDecision ==
    [][ pc = "gate"
        => /\ (pc' = "scoring") <=> ToScorer
           /\ (pc' = "test_runner") <=> ~ToScorer ]_vars

\* the gate has ended a run before the retry cap because the iteration
\* produced no patch
C10_Witness ==
    /\ pc = "scoring" /\ gate = "score"
    /\ patches = <<>> /\ iteration > 0 /\ iteration < max_retries
    /\ pytest_exit_code # 5 /\ failures # <<>>

\* C11: when the gate retries, the state the next TestRunner receives has
\* iteration one greater and current_temperature = max(temperature_min,
\* 0.75 x the previous current_temperature); when the gate goes to the
\* Scorer, iteration and current_temperature are unchanged
C11_RetryFrame ==
    [][ pc = "gate"
        => IF pc' = "test_runner"
           THEN /\ iteration' = iteration + 1
                /\ IF 3 * current_temperature >= 4 * OPENAI_TEMPERATURE_MIN
                   THEN 4 * current_temperature' = 3 * current_temperature
                   ELSE current_temperature' = OPENAI_TEMPERATURE_MIN
           ELSE /\ pc' = "scoring"
                /\ iteration' = iteration
                /\ current_temperature' = current_temperature ]_vars

\* a second retry has been handed to TestRunner with the temperature held
\* at the floor
C11_Witness ==
    /\ pc = "test_runner" /\ gate = "retry" /\ iteration = 2
    /\ current_temperature = OPENAI_TEMPERATURE_MIN

\* C12: when an exception escapes a stage (the Classifier meets an empty
\* trace), the driver sets fatal_error, forces ci_status = FAILED, calls
\* the progress sink once more with that state and halts; once fatal_error
\* is set no step follows
C12_FatalHalt ==
    [][ /\ (pc = "failure_classifier" /\ EmptyTrace(repo, pytest_json_report))
           => /\ fatal_error' # None
              /\ ci_status' = "FAILED"
              /\ sink_calls' = sink_calls + 1
              /\ artifact'.ci_timeline = timeline'
              /\ pc' = "halted"
        /\ fatal_error # None => FALSE ]_vars

\* the run has halted on the Classifier's exception: the sink got the
\* three completed stages and then the failure
C12_Witness ==
    /\ pc = "halted" /\ fatal_error # None /\ ci_status = "FAILED"
    /\ sink_calls = 4 /\ artifact.ci_timeline = <<"ANALYSIS", "TEST_RUN">>

\* C13: once fallback_triggered is true it stays true, and no later step
\* sends a request to the LLM
C13_FallbackSticky ==
    [][ fallback_triggered
        => (fallback_triggered' /\ llm_calls' = llm_calls) ]_vars

\* the six stages of the iteration body, in the order of the linear edges
IterationBody ==
    <<"test_runner", "failure_classifier", "root_cause", "patch_generator",
      "validation", "commit_optimizer">>

\* C14: the stages entered so far are CIFeedback, RepoAnalyzer, then the
\* six stages of the iteration body over and over in their order, and the
\* Scorer only as the last one, after one or more whole repetitions; a run
\* that has ended in the Scorer has run it once
C14_StageOrder ==
    /\ \A k \in 1..Len(executed) :
          IF k = 1 THEN executed[k] = "cicd_feedback"
          ELSE IF k = 2 THEN executed[k] = "repo_analyzer"
          ELSE \/ executed[k] = IterationBody[((k - 3) % 6) + 1]
               \/ /\ executed[k] = "scoring"
                  /\ k = Len(executed) /\ k >= 9 /\ (k - 3) % 6 = 0
    /\ pc = "done" => executed[Len(executed)] = "scoring"

\* a run of three repetitions of the iteration body has ended in the Scorer
C14_Witness ==
    pc = "done" /\ Len(executed) = 2 + 6 * 3 + 1

\* a step that completes the execution of one of the nine stages
CompletesStage ==
    \/ pc \in {"cicd_feedback", "repo_analyzer", "test_runner", "root_cause",
               "patch_generator", "commit_optimizer", "scoring"}
    \/ (pc = "failure_classifier" /\ pc' = "root_cause")
    \/ (pc = "validation_loop" /\ pc' = "commit_optimizer")

\* C15: every execution of a stage appends at least one TimelineEvent and
\* is followed by exactly one invocation of the progress sink before the
\* next stage starts
C15_StageReports ==
    [][ CompletesStage
        => /\ Len(timeline') >= Len(timeline) + 1
           /\ sink_calls' = sink_calls + 1 ]_vars

IsPrefix(s, t) == Len(s) <= Len(t) /\ \A k \in 1..Len(s) : s[k] = t[k]

\* C16: each write of the results file of a run keeps the ci_timeline of
\* the write before it as a prefix, from the initialization and cloning
\* events through the final or failure write
C16_TimelineAppendOnly ==
    [][ IsPrefix(artifact.ci_timeline, artifact'.ci_timeline) ]_vars

\* the Classifier stage has assigned state.failures
Classified == pc \in {"classifier_sorted", "root_cause"}

\* what makes two failures equal: type, file, line and the first 80
\* characters of the message
EqualFailures(f, g) ==
    /\ f.failure_type = g.failure_type /\ f.file_path = g.file_path
    /\ f.line_number = g.line_number /\ f.message.head = g.message.head

FirstOfItsGroup(k) ==
    \A i \in 1..(k - 1) : ~EqualFailures(discovered[i], discovered[k])

\* C17: after the Classifier no two failures of the list are equal, and
\* the list holds, of the discovered failures, exactly the first of each
\* group of equal ones
C17_DedupLaw ==
    Classified
    => /\ \A i, j \in 1..Len(failures) :
             i # j => ~EqualFailures(failures[i], failures[j])
       /\ \A k \in 1..Len(discovered) :
             FirstOfItsGroup(k)
             <=> \E j \in 1..Len(failures) : failures[j] = discovered[k]

\* of three discovered failures the second was dropped, though its message
\* differs from the first one's after the 80th character
C17_Witness ==
    /\ pc = "classifier_sorted"
    /\ Len(discovered) = 3 /\ Len(failures) = 2
    /\ EqualFailures(discovered[1], discovered[2])
    /\ discovered[1].message # discovered[2].message
    /\ discovered[1].severity # discovered[2].severity
    /\ \E j \in 1..2 : failures[j] = discovered[1]

\* the place of a severity in the order CRITICAL, HIGH, MEDIUM, LOW
SeverityPlace(sev) ==
    CHOOSE n \in 1..4 : <<"CRITICAL", "HIGH", "MEDIUM", "LOW">>[n] = sev

\* the place of a failure of the list among the discovered ones
DiscoveryPlace(f) ==
    CHOOSE k \in 1..Len(discovered) : discovered[k] = f

\* C18: after the Classifier no failure precedes one of strictly higher
\* severity, and failures of equal severity keep their discovery order
C18_SeverityOrder ==
    Classified
    => \A i, j \in 1..Len(failures) :
          i < j
          => /\ SeverityPlace(failures[i].severity)
                  <= SeverityPlace(failures[j].severity)
             /\ failures[i].severity = failures[j].severity
                  => DiscoveryPlace(failures[i]) < DiscoveryPlace(failures[j])

\* a CRITICAL failure discovered last has moved to the front, and the two
\* LOW failures discovered before it have kept their order
C18_Witness ==
    /\ pc = "classifier_sorted"
    /\ Len(discovered) = 3 /\ Len(failures) = 3
    /\ discovered[1].severity = "LOW" /\ discovered[2].severity = "LOW"
    /\ discovered[3].severity = "CRITICAL"
    /\ failures = <<discovered[3], discovered[1], discovered[2]>>

\* the target file of a failure
TargetOf(f) ==
    IF f.root_cause_file # None THEN f.root_cause_file ELSE f.file_path

\* the PatchGenerator of this iteration has run, the next Classifier not
AfterPatchGenerator ==
    pc \in {"validation", "validation_loop", "commit_optimizer", "gate"}

\* C19: patches holds at most one patch per target file and none for the
\* placeholder "unknown"; after the PatchGenerator each patch is for the
\* target file of its failure
C19_OnePatchPerTarget ==
    /\ \A i, j \in 1..Len(patches) :
          i # j => patches[i].file_path # patches[j].file_path
    /\ \A i \in 1..Len(patches) : patches[i].file_path # "unknown"
    /\ AfterPatchGenerator
       => \A i \in 1..Len(patches) :
             \E k \in 1..Len(failures) :
                /\ failures[k].failure_id = patches[i].failure_id
                /\ TargetOf(failures[k]) = patches[i].file_path

\* two failures share the target file of the one patch made for it
C19_Witness ==
    /\ pc = "validation" /\ Len(patches) >= 1
    /\ \E i, j \in 1..Len(failures) :
          /\ i # j
          /\ TargetOf(failures[i]) = patches[1].file_path
          /\ TargetOf(failures[j]) = patches[1].file_path

\* C20: every patch of the list has at most PATCH_MAX_LINES changed diff
\* lines, and its patched_code parses as Python
C20_PatchesPassGates ==
    \A i \in 1..Len(patches) :
        /\ patches[i].diff_lines <= PATCH_MAX_LINES
        /\ patches[i].patched_code = "v1"
        /\ repo.rewrite[patches[i].file_path].parses

\* every Failure of the list has a Fix with its failure_id
AllFailuresFixed ==
    \A k \in 1..Len(failures) :
        \E j \in 1..Len(fixes) : fixes[j].failure_id = failures[k].failure_id

\* C21: the Scorer resolves ci_status by the first matching rule:
\* fatal_error set -> FAILED; else no Failure lacks a matching Fix ->
\* SUCCESS; else Fixes exist and the test exit code is 5 -> SUCCESS; else
\* Fixes exist -> PARTIAL; else FAILED
C21_StatusResolution ==
    [][ pc = "scoring"
        => ci_status' =
             (IF fatal_error # None THEN "FAILED"
              ELSE IF AllFailuresFixed THEN "SUCCESS"
              ELSE IF Len(fixes) > 0 /\ pytest_exit_code = 5 THEN "SUCCESS"
              ELSE IF Len(fixes) > 0 THEN "PARTIAL"
              ELSE "FAILED") ]_vars

\* the Scorer has resolved SUCCESS by the third rule: a Failure is left
\* without a Fix, and the test tool had collected nothing
C21_Witness ==
    /\ pc = "done" /\ fatal_error = None /\ ~AllFailuresFixed
    /\ Len(fixes) > 0 /\ pytest_exit_code = 5 /\ ci_status = "SUCCESS"

MidFlight == pc \notin {"done", "halted"} /\ artifact # NoArtifact

\* C23: every write of the results file made while the pipeline is
\* mid-flight (after a stage that precedes the Scorer) shows ci_status =
\* "IN_PROGRESS"
C23_SnapshotsInProgress == MidFlight => artifact.ci_status = "IN_PROGRESS"

\* the values of ci_status in a results file
CanonicalStatuses == {"PENDING", "IN_PROGRESS", "PARTIAL", "RESOLVED", "FAILED"}

\* C24: every results file written for a run, by the progress tick, the
\* final write or the fatal-error path, has a ci_status that is one of
\* PENDING, IN_PROGRESS, PARTIAL, RESOLVED, FAILED
C24_CanonicalStatus ==
    artifact # NoArtifact => artifact.ci_status \in CanonicalStatuses

\* the inputs of the score, read off the state: the number of validated
\* fixes, the speed bonus of the elapsed time, and the tests_regressed of
\* the first n validation results, summed
AcceptedFixCount ==
    Cardinality({ j \in 1..Len(fixes) : fixes[j].validated })

SpeedBonus == IF elapsed_total < 300 THEN 10 ELSE 0

RECURSIVE RegressedUpTo(_)
RegressedUpTo(n) ==
    IF n = 0 THEN 0
    ELSE validation_results[n].tests_regressed + RegressedUpTo(n - 1)

\* regression_penalty = efficiency_penalty + 5 x the sum of tests_regressed
RegressionPenalty ==
    2 * (IF AcceptedFixCount > 20 THEN AcceptedFixCount - 20 ELSE 0)
    + 5 * RegressedUpTo(Len(validation_results))

OtherRunStates ==
    [fixes : ScoredFixLists, validation_results : ScoredResultLists,
     elapsed_total : {0, 299, 300, 301}, iteration : {0, 1},
     failures : { ScoredFailures(m) : m \in {0, 2} }]

\* the other state agrees with this one on the accepted fix count, on
\* whether the elapsed time is below 300 s, and on the total of
\* tests_regressed
AgreesWith(other) ==
    /\ Cardinality({ j \in 1..Len(other.fixes) : other.fixes[j].validated })
          = AcceptedFixCount
    /\ (other.elapsed_total < 300) <=> (elapsed_total < 300)
    /\ TotalRegressions(other.validation_results)
          = RegressedUpTo(Len(validation_results))

\* what the Scorer computes on the other state
ScoreOf(other) ==
    ComputeScore(other.fixes, other.validation_results, other.elapsed_total,
                 other.iteration, other.failures)

SameScores(a, b) ==
    /\ a.base_score = b.base_score
    /\ a.speed_factor = b.speed_factor
    /\ a.fix_efficiency = b.fix_efficiency
    /\ a.regression_penalty = b.regression_penalty
    /\ a.total_score = b.total_score

C27_RemoteUrlRestored ==
    [][ pc = "commit_optimizer" => origin_url' = origin_url ]_vars

\* C28: over a run each accepted Fix is committed once, as its own commit:
\* the number of commits created equals the number of Fixes that were
\* committed (the file of every Fix exists), and a Fix that has a
\* commit_sha keeps it in every later step
C28_OneCommitPerFix ==
    [][ /\ Len(commits')
             = Cardinality({ j \in 1..Len(fixes') : fixes'[j].commit_sha # NoSha })
        /\ \A j \in 1..Len(fixes) :
              fixes[j].commit_sha # NoSha
              => fixes'[j].commit_sha = fixes[j].commit_sha ]_vars

\* the number of failing tests a run of the test tool reports
FailingCount(run) == run.failed + run.errors

\* the i-th patch was accepted by the last rule of _validate_patch (tests
\* improved), by neither of the two special cases before it
ByImprovedRule(i) ==
    /\ v_results[i].passed
    /\ ~(v_runs[i].run.exit_code = 5
         \/ (v_results[i].tests_before = 0 /\ v_runs[i].run.exit_code # 1))
    /\ ~(v_runs[i].previous_exit = 2 /\ v_runs[i].run.exit_code = 1
         /\ v_runs[i].run.passed > 0)

\* the test tool finished both in the i-th validation run and in the run
\* before it
BothRunsFinished(i) ==
    v_runs[i].run.exit_code # 0 - 1 /\ v_runs[i].prior.exit_code # 0 - 1

\* C29: a patch is accepted by the tests-improved rule only if fewer tests
\* fail after it is applied than failed immediately before, whatever its
\* position in the iteration's patch sequence
C29_ImprovedOverPrevious ==
    \A i \in 1..Len(v_results) :
        (ByImprovedRule(i) /\ BothRunsFinished(i))
        => FailingCount(v_runs[i].run) < FailingCount(v_runs[i].prior)

\* C30: if the test tool timed out (exit code -1) and the Classifier added
\* no failure, the convergence gate does not stop at once: it hands the
\* run back to TestRunner for one more iteration
C30_TimeoutRetries ==
    [][ (pc = "gate" /\ pytest_exit_code = 0 - 1 /\ failures = <<>>)
        => pc' = "test_runner" ]_vars

\* every execution of the test tool in the run so far ended without a
\* result of the tests (exit code -1), and there was at least one
NoToolRunFinished ==
    /\ tool_runs >= 1
    /\ \A n \in 1..tool_runs : ExecutePytest(repo, disk, n).exit_code = 0 - 1

\* C31: a run in which the test tool never finished an execution and in
\* which no Fix was produced does not end with ci_status SUCCESS, and its
\* results file does not show RESOLVED
C31_NoSuccessWithoutTestRun ==
    (pc = "done" /\ NoToolRunFinished /\ fixes = <<>>)
    => (ci_status # "SUCCESS" /\ artifact.ci_status # "RESOLVED")

\* C32: under every permitted MAX_RETRIES the bound of 50 graph
\* transitions is never what ends a run: no run is halted by
\* GraphRecursionError
C32_CapNeverHit ==
    ~(pc = "halted" /\ fatal_error = "GraphRecursionError")

\* the Resolver of the current iteration sends (or has sent) a request to
\* the LLM, and the LLM answers requests with a rate-limit error
RootCauseRateLimited ==
    /\ RootCauseCalls(repo, failures, fallback_triggered) > 0
    /\ LlmOutcome(repo) = "rate"

\* C33: when a root-cause request of the Resolver fails with a rate-limit
\* error, the Resolver leaves fallback_triggered set, and the
\* PatchGenerator of the same iteration sends no request to the LLM
C33_RateLimitStopsLlm ==
    [][ /\ (pc = "root_cause" /\ RootCauseRateLimited) => fallback_triggered'
        /\ (pc = "patch_generator" /\ RootCauseRateLimited)
           => llm_calls' = llm_calls ]_vars

\* C34: while the Resolver analyses in parallel, at most 4 calls of the
\* LLM are in flight, and every assignment to a field of a Failure is made
\* by the driver thread, none by a worker thread
C34_DriverSerializesWrites ==
    /\ Cardinality(InFlight) <= 4
    /\ \A i \in 1..Len(failure_writes) : failure_writes[i].thread = "driver"

\* C35: no two writes of results files overlap, however the concurrent
\* runs interleave: at most one results file is open for writing at any
\* time, and the run that has one open holds the lock
C35_WritesNeverOverlap ==
    /\ Cardinality(open_files) <= 1
    /\ \A r \in open_files : write_lock = r

\* C36: in every ValidationResult the Validator writes, tests_regressed
\* equals new_failures_introduced (so that a patch rejected for n new
\* failures costs 5 x n points of regression_penalty)
C36_RegressedEqualsIntroduced ==
    /\ \A i \in 1..Len(v_results) :
          v_results[i].tests_regressed = v_results[i].new_failures_introduced
    /\ \A i \in 1..Len(validation_results) :
          validation_results[i].tests_regressed
            = validation_results[i].new_failures_introduced

\* the CI log of the run has an ##[error] line about the environment or
\* about a dependency
TroubleSignalled ==
    \E i \in 1..Len(repo.setup.ci_logs.errors) :
        \/ repo.setup.ci_logs.errors[i].is_env_issue
        \/ repo.setup.ci_logs.errors[i].is_dependency_issue

\* C37: when the CI log signals environment or dependency trouble, the
\* failures the Classifier hands to the Resolver and the PatchGenerator
\* have every IMPORT or DEPENDENCY failure at severity CRITICAL and before
\* all other failures
C37_SignalledImportsFirst ==
    (pc \in {"root_cause", "patch_generator"} /\ TroubleSignalled)
    => \A k \in 1..Len(failures) :
          failures[k].failure_type \in {"IMPORT", "DEPENDENCY"}
          => /\ failures[k].severity = "CRITICAL"
             /\ \A j \in 1..(k - 1) :
                   failures[j].failure_type \in {"IMPORT", "DEPENDENCY"}

\* C38: the Classifier raises nothing for a test report: given a report
\* with a failed or errored test whose trace is empty, it returns to the
\* graph (the Resolver runs next) and fatal_error stays unset
C38_ClassifierNeverRaises ==
    [][ (pc = "failure_classifier" /\ EmptyTrace(repo, pytest_json_report))
        => (pc' = "root_cause" /\ fatal_error' = None) ]_vars

\* C39: whenever an execution of the test tool exceeds its timeout, the
\* TestRunner's result has exit_code -1 and raw_output "TIMEOUT", and
\* when the binary is missing it has exit_code -127, whether the command
\* runs as a local subprocess or in the container sandbox
C39_NormalizedToolFailure ==
    (pc = "failure_classifier" /\ tool_runs >= 1)
    => /\ ToolOutcome(repo, tool_runs) = "timeout"
          => (pytest_exit_code = 0 - 1 /\ last_run.raw_output = "TIMEOUT")
       /\ ToolOutcome(repo, tool_runs) = "missing"
          => pytest_exit_code = 0 - 127

\* the language with the most source files, equal counts resolved in the
\* order Java, Node.js, Python
MostFilesJavaFirst(c) ==
    IF c.java >= c.node /\ c.java >= c.py THEN "JAVA"
    ELSE IF c.node >= c.py THEN "NODE_JS"
    ELSE "PYTHON"

\* a marker file of the root decides the language
MarkerDecides(root) ==
    root \cap ({"package.json", "pom.xml", "build.gradle", "build.gradle.kts"}
               \cup PythonSignals) # {}

\* the language and the test tool by the strict priority of the marker
\* files
ByMarkers(root) ==
    IF "package.json" \in root
    THEN <<"NODE_JS", IF "yarn.lock" \in root THEN "yarn test" ELSE "npm test">>
    ELSE IF "pom.xml" \in root THEN <<"JAVA", "mvn test">>
    ELSE IF {"build.gradle", "build.gradle.kts"} \cap root # {}
    THEN <<"JAVA", "gradle test">>
    ELSE <<"PYTHON", "pytest">>

\* C40: the RepoAnalyzer detects Node.js for package.json (yarn test with
\* yarn.lock, else npm test), else Java/mvn test for pom.xml, else
\* Java/gradle test for build.gradle or build.gradle.kts, else
\* Python/pytest for a Python marker file, else (when the repository has a
\* source file) the language with the most source files, equal counts
\* resolved in the order Java, Node.js, Python
C40_DetectionPriority ==
    pc = "test_runner"
    => LET root == repo.setup.root_files
           c == repo.setup.ext_counts
       IN IF MarkerDecides(root)
          THEN <<repo_language, test_runner_tool>> = ByMarkers(root)
          ELSE c.py + c.node + c.java > 0
               => repo_language = MostFilesJavaFirst(c)

====
